---- MODULE Spec2Model ----
(***************************************************************************)
(* Model of the gold-contract backtest of ai_trapper/ai_trapper:           *)
(*   - BacktestEngine (backtest_engine.py): the execution ledger           *)
(*     (execute_trade), position sizing, the equity tracker and the        *)
(*     per-bar loop of run_backtest;                                       *)
(*   - GoldTradingStrategy (gold_strategy.py): the five sub-signals, the   *)
(*     fusion with its trend filter, and the exit check.                   *)
(*                                                                         *)
(* Python floats are modelled as exact rationals <<num, den>> (den > 0,    *)
(* lowest terms); prices, indicator values and quantities are integers.    *)
(* NaN is modelled only for ATR (the one indicator whose NaN branch the    *)
(* ledger and the exit check read), as the value NaN below.                *)
(***************************************************************************)
EXTENDS Integers, Sequences, FiniteSets, TLC

VARIABLES
    \* BacktestEngine fields (backtest_engine.py:68-80)
    current_capital, available_cash, current_position, position_value,
    entry_price, entry_time, equity_history, trades_history, signal_history,
    \* the arguments of the execute_trade call in progress / last made
    call,
    \* number of execute_trade calls made directly by a caller (SpecLedger)
    ncalls,
    \* run_backtest: position in the loop body, bar index, current and
    \* previous row of the bar table, the bar's composite signal, runs started
    pc, i, bar, prev, signal, nruns,
    \* the BacktestResult returned by the run_backtest call, once it has
    \* returned
    result,
    \* strategy functions applied to drawn inputs (SpecStrategy): the
    \* arguments, and the last return value with a flag telling that the
    \* call before it was the same call
    query, answer,
    \* GoldTradingStrategy fields (gold_strategy.py:36-44)
    strat,
    \* GoldTradingStrategy.backtest: the locals signals and trades, and
    \* whether they have been returned
    bt

vars == <<current_capital, available_cash, current_position, position_value,
          entry_price, entry_time, equity_history, trades_history,
          signal_history, call, ncalls, pc, i, bar, prev, signal, nruns,
          result, query, answer, strat, bt>>

engineVars == <<current_capital, available_cash, current_position,
                position_value, entry_price, entry_time, equity_history,
                trades_history, signal_history>>
runVars == <<pc, i, bar, prev, signal, nruns, result>>
stratVars == <<query, answer, strat, bt>>

----------------------------------------------------------------------------
(* Exact rational arithmetic standing for float arithmetic.                *)

Abs(x) == IF x < 0 THEN -x ELSE x
Max(a, b) == IF a >= b THEN a ELSE b
Min(a, b) == IF a <= b THEN a ELSE b

RECURSIVE GCD(_, _)
GCD(a, b) == IF b = 0 THEN a ELSE GCD(b, a % b)

\* the rational n/d in lowest terms with a positive denominator
Lowest(n, d, g) ==
    IF d < 0 THEN <<(-n) \div g, (-d) \div g>> ELSE <<n \div g, d \div g>>
Rat(n, d) == Lowest(n, d, GCD(Abs(n), Abs(d)))

R(n) == <<n, 1>>
RZero == <<0, 1>>
RAdd(a, b) == Rat(a[1] * b[2] + b[1] * a[2], a[2] * b[2])
RSub(a, b) == Rat(a[1] * b[2] - b[1] * a[2], a[2] * b[2])
RMul(a, b) == Rat(a[1] * b[1], a[2] * b[2])
RDiv(a, b) == Rat(a[1] * b[2], a[2] * b[1])
RLt(a, b) == a[1] * b[2] < b[1] * a[2]
RLe(a, b) == a[1] * b[2] <= b[1] * a[2]
RMin(a, b) == IF RLe(a, b) THEN a ELSE b
RAbs(a) == <<Abs(a[1]), a[2]>>
\* Python int(): truncation toward zero
RInt(a) == IF a[1] >= 0 THEN a[1] \div a[2] ELSE -((-a[1]) \div a[2])

----------------------------------------------------------------------------
(* Configuration (config.py) and the markers for missing values.           *)

INITIAL_CAPITAL == 100000
COMMISSION_RATE == Rat(2, 1000)
SLIPPAGE == Rat(1, 1000)
POSITION_SIZE == Rat(95, 100)
STOP_LOSS_PCT == Rat(5, 100)
TAKE_PROFIT_PCT == Rat(10, 100)
RSI_OVERSOLD == 30
RSI_OVERBOUGHT == 70

\* a NaN ATR cell; ATR itself is never negative
NaN == -1
\* entry_time = None; timestamps are 1, 2, ...
None == 0

----------------------------------------------------------------------------
(* BacktestEngine: risk sizing (backtest_engine.py:102-140).               *)

\* `if atr and atr > 0`: atr is None for a NaN cell, and 0 is falsy
AtrUsable(atr) == atr # NaN /\ atr > 0

\* 1 + commission_rate + slippage and 1 - commission_rate - slippage
CostFactor == RAdd(R(1), RAdd(COMMISSION_RATE, SLIPPAGE))
RevenueFactor == RSub(R(1), RAdd(COMMISSION_RATE, SLIPPAGE))

risk_per_trade == Rat(1, 100)

\* lines 123-127: risk_amount / (stop_distance * price)
position_by_risk(price, atr) ==
    RDiv(RMul(R(current_capital), risk_per_trade),
         RMul(RMul(Rat(3, 2), R(atr)), R(price)))

\* lines 115-132
max_position_ratio(price, adjusted_position_size, atr) ==
    IF AtrUsable(atr)
    THEN IF available_cash = RZero
         \* numpy: x / 0.0 = inf for x > 0, and min(a, inf) = a
         THEN adjusted_position_size
         ELSE RMin(adjusted_position_size,
                   RDiv(RMul(position_by_risk(price, atr), R(price)),
                        available_cash))
    ELSE adjusted_position_size

\* faulty variant: the count is returned as computed, without the floor of 1
calculate_position_size_NoFloor(price, signal_confidence, atr) ==
    RInt(RDiv(RMul(available_cash,
                   max_position_ratio(price,
                       RMul(POSITION_SIZE, signal_confidence), atr)),
              RMul(R(price), CostFactor)))

\* lines 135-140
calculate_position_size(price, signal_confidence, atr) ==
    Max(1, RInt(RDiv(RMul(available_cash,
                          max_position_ratio(price,
                              RMul(POSITION_SIZE, signal_confidence), atr)),
                     RMul(R(price), CostFactor))))

----------------------------------------------------------------------------
(* BacktestEngine.execute_trade (backtest_engine.py:166-286).  A trade is  *)
(* a record (a Python dict): timestamp, action, price, quantity, reason    *)
(* and, optionally, confidence.  The recorded copy gains quantity and      *)
(* cost or revenue.                                                        *)

Confidence(trade) ==
    IF "confidence" \in DOMAIN trade THEN trade.confidence ELSE Rat(1, 2)

\* faulty variant: the cash check of a BUY dropped
BuyAffordable_Always(cost) == TRUE

\* lines 205, 231, 257, 283: trade_record['quantity'] = quantity
\* faulty variant: the copy keeps the quantity of the order as submitted
RecordedQuantity_AsRequested(trade, quantity) == trade.quantity

RecordedQuantity(trade, quantity) == quantity

\* line 190: the cash check of a BUY
BuyAffordable(cost) == RLe(cost, available_cash)

\* lines 192-193: volume-weighted entry price of a long position
LongAvgPrice(price, quantity, new_position) ==
    IF new_position > 0
    THEN RDiv(RAdd(RMul(entry_price, R(current_position)),
                   R(price * quantity)), R(new_position))
    ELSE R(price)

\* lines 190-208, with the quantity and cost of lines 184-187
BuyOrder(trade, quantity, cost) ==
    IF BuyAffordable(cost)
    THEN /\ current_position' = current_position + quantity
         /\ entry_price' =
                LongAvgPrice(trade.price, quantity, current_position + quantity)
         /\ entry_time' = trade.timestamp
         /\ available_cash' = RSub(available_cash, cost)
         /\ position_value' = (current_position + quantity) * trade.price
         /\ trades_history' =
                Append(trades_history,
                       ("quantity" :> RecordedQuantity(trade, quantity))
                       @@ ("cost" :> cost) @@ trade)
    ELSE UNCHANGED <<current_position, entry_price, entry_time,
                     available_cash, position_value, trades_history>>

Cost(quantity, price) == RMul(R(quantity * price), CostFactor)
Revenue(quantity, price) == RMul(R(quantity * price), RevenueFactor)

BuySized(trade, quantity) ==
    BuyOrder(trade, quantity, Cost(quantity, trade.price))

ExecBUY(trade, atr) ==
    BuySized(trade,
             calculate_position_size(trade.price, Confidence(trade), atr))

\* faulty variant: the SELL is not clamped
SellQuantity_Unclamped(requested) == requested

\* line 211: a SELL cannot exceed the quantity held
SellQuantity(requested) == Min(requested, current_position)

\* faulty variant: the entry state is never cleared
EntryAfterClose_NeverReset(new_position) ==
    [price |-> entry_price, time |-> entry_time]

\* lines 225-227 and 277-279: entry state after a closing trade
EntryAfterClose(new_position) ==
    IF new_position = 0
    THEN [price |-> RZero, time |-> None]
    ELSE [price |-> entry_price, time |-> entry_time]

\* lines 213-234, with the quantity of line 211
SellOrder(trade, quantity) ==
    IF quantity > 0
    THEN /\ current_position' = current_position - quantity
         /\ available_cash' =
                RAdd(available_cash, Revenue(quantity, trade.price))
         /\ position_value' = (current_position - quantity) * trade.price
         /\ entry_price' = EntryAfterClose(current_position - quantity).price
         /\ entry_time' = EntryAfterClose(current_position - quantity).time
         /\ trades_history' =
                Append(trades_history,
                       ("quantity" :> RecordedQuantity(trade, quantity))
                       @@ ("revenue" :> Revenue(quantity, trade.price))
                       @@ trade)
    ELSE UNCHANGED <<current_position, entry_price, entry_time,
                     available_cash, position_value, trades_history>>

ExecSELL(trade) == SellOrder(trade, SellQuantity(trade.quantity))

\* lines 244-245: volume-weighted entry price of a short position
ShortAvgPrice(price, quantity, new_position) ==
    IF new_position < 0
    THEN RDiv(RAdd(RAbs(RMul(entry_price, R(current_position))),
                   R(price * quantity)), R(Abs(new_position)))
    ELSE R(price)

\* lines 240-260, with the quantity of line 238
ShortOrder(trade, quantity) ==
    /\ current_position' = current_position - quantity
    /\ entry_price' =
           ShortAvgPrice(trade.price, quantity, current_position - quantity)
    /\ entry_time' = trade.timestamp
    /\ available_cash' = RAdd(available_cash, Revenue(quantity, trade.price))
    /\ position_value' = Abs(current_position - quantity) * trade.price
    /\ trades_history' =
           Append(trades_history,
                  ("quantity" :> RecordedQuantity(trade, quantity))
                  @@ ("revenue" :> Revenue(quantity, trade.price)) @@ trade)

\* faulty variant: a short sale behind the cash check of a BUY
ShortSized_CashChecked(trade, quantity) ==
    IF RLe(Cost(quantity, trade.price), available_cash)
    THEN ShortOrder(trade, quantity)
    ELSE UNCHANGED <<current_position, entry_price, entry_time,
                     available_cash, position_value, trades_history>>

\* lines 236-260: no cash check stands before a short sale
ShortSized(trade, quantity) == ShortOrder(trade, quantity)

ExecSELL_SHORT(trade, atr) ==
    ShortSized(trade,
               calculate_position_size(trade.price, Confidence(trade), atr))

\* line 263: min(requested, abs(current_position))
CoverQuantity(requested) == Min(requested, Abs(current_position))

\* faulty variant: the cover is paid without commission and slippage
CoverOrder_PaidWithoutFees(trade, quantity) ==
    IF quantity > 0
    THEN /\ current_position' = current_position + quantity
         /\ available_cash' = RSub(available_cash, R(quantity * trade.price))
         /\ position_value' = Abs(current_position + quantity) * trade.price
         /\ entry_price' = EntryAfterClose(current_position + quantity).price
         /\ entry_time' = EntryAfterClose(current_position + quantity).time
         /\ trades_history' =
                Append(trades_history,
                       ("quantity" :> RecordedQuantity(trade, quantity))
                       @@ ("cost" :> Cost(quantity, trade.price)) @@ trade)
    ELSE UNCHANGED <<current_position, entry_price, entry_time,
                     available_cash, position_value, trades_history>>

\* lines 265-286, with the quantity of line 263
CoverOrder(trade, quantity) ==
    IF quantity > 0
    THEN /\ current_position' = current_position + quantity
         /\ available_cash' = RSub(available_cash, Cost(quantity, trade.price))
         /\ position_value' = Abs(current_position + quantity) * trade.price
         /\ entry_price' = EntryAfterClose(current_position + quantity).price
         /\ entry_time' = EntryAfterClose(current_position + quantity).time
         /\ trades_history' =
                Append(trades_history,
                       ("quantity" :> RecordedQuantity(trade, quantity))
                       @@ ("cost" :> Cost(quantity, trade.price)) @@ trade)
    ELSE UNCHANGED <<current_position, entry_price, entry_time,
                     available_cash, position_value, trades_history>>

ExecBUY_TO_COVER(trade) == CoverOrder(trade, CoverQuantity(trade.quantity))

execute_trade(trade, atr) ==
    /\ call' = [trade |-> trade, atr |-> atr]
    /\ CASE trade.action = "BUY" -> ExecBUY(trade, atr)
         [] trade.action = "SELL" -> ExecSELL(trade)
         [] trade.action = "SELL_SHORT" -> ExecSELL_SHORT(trade, atr)
         [] trade.action = "BUY_TO_COVER" -> ExecBUY_TO_COVER(trade)
    /\ UNCHANGED <<current_capital, equity_history, signal_history>>

----------------------------------------------------------------------------
(* GoldTradingStrategy: sub-signals (gold_strategy.py:46-202).  A row of   *)
(* the bar table is a record Close, MA_fast, MA_slow, RSI, MACD,           *)
(* MACD_Signal, BB_Upper, BB_Middle, BB_Lower, Volume_Ratio, Price_Change, *)
(* ATR; Volume_Ratio and Price_Change are rationals.  `pb` is row          *)
(* index-1, `b` is row index.  A sub-signal is [signal, confidence, tag].  *)

Sub(direction, confidence, tag) ==
    [signal |-> direction, confidence |-> confidence, tag |-> tag]

calculate_ma_crossover_signal(pb, b, index) ==
    IF index < 1 THEN Sub("HOLD", RZero, "MA")
    ELSE IF pb.MA_fast <= pb.MA_slow /\ b.MA_fast > b.MA_slow
    THEN Sub("BUY",
             RMin(Rat(8, 10),
                  RMul(Rat(Abs(b.MA_fast - b.MA_slow), b.MA_slow), R(100))),
             "MA")
    ELSE IF pb.MA_fast >= pb.MA_slow /\ b.MA_fast < b.MA_slow
    THEN Sub("SELL",
             RMin(Rat(8, 10),
                  RMul(Rat(Abs(b.MA_slow - b.MA_fast), b.MA_slow), R(100))),
             "MA")
    ELSE Sub("HOLD", RZero, "MA")

calculate_rsi_signal(b) ==
    IF b.RSI < RSI_OVERSOLD
    THEN Sub("BUY", Rat(RSI_OVERSOLD - b.RSI, RSI_OVERSOLD), "RSI")
    ELSE IF b.RSI > RSI_OVERBOUGHT
    THEN Sub("SELL", Rat(b.RSI - RSI_OVERBOUGHT, 100 - RSI_OVERBOUGHT), "RSI")
    ELSE Sub("HOLD", RZero, "RSI")

\* min(0.7, gap / |signal| if signal != 0 else 0.5)
MacdConfidence(macd, macd_signal) ==
    RMin(Rat(7, 10),
         IF macd_signal # 0
         THEN Rat(Abs(macd - macd_signal), Abs(macd_signal))
         ELSE Rat(1, 2))

calculate_macd_signal(pb, b, index) ==
    IF index < 1 THEN Sub("HOLD", RZero, "MACD")
    ELSE IF pb.MACD <= pb.MACD_Signal /\ b.MACD > b.MACD_Signal
    THEN Sub("BUY", MacdConfidence(b.MACD, b.MACD_Signal), "MACD")
    ELSE IF pb.MACD >= pb.MACD_Signal /\ b.MACD < b.MACD_Signal
    THEN Sub("SELL", MacdConfidence(b.MACD, b.MACD_Signal), "MACD")
    ELSE Sub("HOLD", RZero, "MACD")

calculate_bollinger_signal(b) ==
    IF b.Close <= b.BB_Lower
    THEN Sub("BUY",
             RMin(Rat(6, 10),
                  RMul(Rat(b.BB_Lower - b.Close, b.BB_Lower), R(10))),
             "BB")
    ELSE IF b.Close >= b.BB_Upper
    THEN Sub("SELL",
             RMin(Rat(6, 10),
                  RMul(Rat(b.Close - b.BB_Upper, b.BB_Upper), R(10))),
             "BB")
    ELSE Sub("HOLD", RZero, "BB")

calculate_volume_signal(b) ==
    LET confidence ==
            RMin(Rat(5, 10),
                 RMul(RMul(RDiv(b.Volume_Ratio, R(3)), RAbs(b.Price_Change)),
                      R(10)))
    IN  IF RLt(Rat(15, 10), b.Volume_Ratio) /\ RLt(Rat(1, 100), b.Price_Change)
        THEN Sub("BUY", confidence, "VOL")
        ELSE IF RLt(Rat(15, 10), b.Volume_Ratio)
                /\ RLt(b.Price_Change, Rat(-1, 100))
        THEN Sub("SELL", confidence, "VOL")
        ELSE Sub("HOLD", RZero, "VOL")

----------------------------------------------------------------------------
(* GoldTradingStrategy.generate_composite_signal (gold_strategy.py:204-317)*)

\* signals = [ma, rsi, macd, bb, vol] (line 235) are zipped with
\* list(weights.values()) = [ma, macd, rsi, bb, volume] (lines 226-237)
SubSignals(pb, b, index) ==
    << calculate_ma_crossover_signal(pb, b, index),
       calculate_rsi_signal(b),
       calculate_macd_signal(pb, b, index),
       calculate_bollinger_signal(b),
       calculate_volume_signal(b) >>
weight_list == << Rat(35, 100), Rat(25, 100), Rat(20, 100), Rat(15, 100),
                  Rat(5, 100) >>
\* lines 226-232: the weights dict, by the name of the sub-signal
weights ==
    [ma |-> Rat(35, 100), macd |-> Rat(25, 100), rsi |-> Rat(20, 100),
     bb |-> Rat(15, 100), volume |-> Rat(5, 100)]

RECURSIVE Score(_, _, _)
Score(subs, direction, k) ==
    IF k = 0 THEN RZero
    ELSE RAdd(Score(subs, direction, k - 1),
              IF subs[k].signal = direction
              THEN RMul(subs[k].confidence, weight_list[k])
              ELSE RZero)

signal_threshold == Rat(18, 100)
min_ma_gap == Rat(1, 1000)

\* faulty variant: the larger score wins whatever its size
Decide_NoThreshold(buy_score, sell_score) ==
    IF RLt(sell_score, buy_score)
    THEN [signal |-> "BUY", confidence |-> buy_score]
    ELSE IF RLt(buy_score, sell_score)
    THEN [signal |-> "SELL", confidence |-> sell_score]
    ELSE [signal |-> "HOLD", confidence |-> RZero]

\* lines 252-260: the direction and confidence the scores give
Decide(buy_score, sell_score) ==
    IF RLt(sell_score, buy_score) /\ RLt(signal_threshold, buy_score)
    THEN [signal |-> "BUY", confidence |-> buy_score]
    ELSE IF RLt(buy_score, sell_score) /\ RLt(signal_threshold, sell_score)
    THEN [signal |-> "SELL", confidence |-> sell_score]
    ELSE [signal |-> "HOLD", confidence |-> RZero]

\* lines 239-260
FuseSubs(subs) == Decide(Score(subs, "BUY", 5), Score(subs, "SELL", 5))
Fusion(pb, b, index) == FuseSubs(SubSignals(pb, b, index))

ma_gap_pct(b) ==
    IF b.Close # 0 THEN Rat(Abs(b.MA_fast - b.MA_slow), b.Close) ELSE RZero

\* faulty variant: a BUY confirmed without looking at the MACD line
TrendConfirmsBuy_NoMacd(b) ==
    /\ b.MA_fast > b.MA_slow
    /\ RLe(min_ma_gap, ma_gap_pct(b))
    /\ b.Close >= b.BB_Middle

\* lines 272 and 276: the conditions a BUY / a SELL must meet
TrendConfirmsBuy(b) ==
    /\ b.MA_fast > b.MA_slow
    /\ b.MACD > 0
    /\ RLe(min_ma_gap, ma_gap_pct(b))
    /\ b.Close >= b.BB_Middle
TrendConfirmsSell(b) ==
    /\ b.MA_fast < b.MA_slow
    /\ b.MACD < 0
    /\ RLe(min_ma_gap, ma_gap_pct(b))
    /\ b.Close <= b.BB_Middle

\* lines 262-279: the trend filter applied to the fused signal
TrendFilter(fused, b) ==
    IF fused.signal = "BUY" /\ ~TrendConfirmsBuy(b)
    THEN [signal |-> "HOLD", confidence |-> RZero,
          reasons |-> <<"trend_filter_long">>]
    ELSE IF fused.signal = "SELL" /\ ~TrendConfirmsSell(b)
    THEN [signal |-> "HOLD", confidence |-> RZero,
          reasons |-> <<"trend_filter_short">>]
    ELSE [signal |-> fused.signal, confidence |-> fused.confidence,
          reasons |-> <<>>]

\* lines 282-293: the tags of the sub-signals that are not HOLD
RECURSIVE SubReasons(_, _)
SubReasons(subs, k) ==
    IF k = 0 THEN <<>>
    ELSE SubReasons(subs, k - 1)
         \o (IF subs[k].signal # "HOLD" THEN <<subs[k].tag>> ELSE <<>>)

\* lines 308-315
TradingSignal(timestamp, b, final, sub_reasons) ==
    [timestamp |-> timestamp,
     signal_type |-> final.signal,
     price |-> b.Close,
     confidence |-> final.confidence,
     reason |-> final.reasons \o sub_reasons]

CompositeOf(subs, b, timestamp) ==
    TradingSignal(timestamp, b, TrendFilter(FuseSubs(subs), b),
                  SubReasons(subs, 5))

\* faulty variant: no signal is given while the strategy holds a position
generate_composite_signal_MutedWhileLong(pb, b, index, timestamp) ==
    IF strat.position = 1
    THEN [CompositeOf(SubSignals(pb, b, index), b, timestamp)
              EXCEPT !.signal_type = "HOLD"]
    ELSE CompositeOf(SubSignals(pb, b, index), b, timestamp)

generate_composite_signal(pb, b, index, timestamp) ==
    CompositeOf(SubSignals(pb, b, index), b, timestamp)

----------------------------------------------------------------------------
(* GoldTradingStrategy: exit check (gold_strategy.py:319-401).             *)
(* position_type is "BUY" for a long position and "SELL" for a short one.  *)

\* lines 331-340 and 345-352: the percentage levels
PercentLevels(current_price, position_type) ==
    IF position_type = "BUY"
    THEN [stop_loss |-> RMul(R(current_price), RSub(R(1), STOP_LOSS_PCT)),
          take_profit |-> RMul(R(current_price), RAdd(R(1), TAKE_PROFIT_PCT))]
    ELSE [stop_loss |-> RMul(R(current_price), RAdd(R(1), STOP_LOSS_PCT)),
          take_profit |-> RMul(R(current_price), RSub(R(1), TAKE_PROFIT_PCT))]

\* lines 354-360: the ATR levels
AtrLevels(current_price, atr, position_type) ==
    IF position_type = "BUY"
    THEN [stop_loss |-> RSub(R(current_price), RMul(R(atr), Rat(15, 10))),
          take_profit |-> RAdd(R(current_price), RMul(R(atr), Rat(25, 10)))]
    ELSE [stop_loss |-> RAdd(R(current_price), RMul(R(atr), Rat(15, 10))),
          take_profit |-> RSub(R(current_price), RMul(R(atr), Rat(25, 10)))]

calculate_atr_stop_loss(b, index, position_type) ==
    IF index < 14 THEN PercentLevels(b.Close, position_type)
    ELSE IF b.ATR = NaN \/ b.ATR = 0
    THEN PercentLevels(b.Close, position_type)
    ELSE AtrLevels(b.Close, b.ATR, position_type)

\* lines 383-401: the verdict from the levels and the bar's signal
ExitVerdict(position_type, current_price, levels, signal_type) ==
    IF position_type = "BUY" /\ RLe(current_price, levels.stop_loss)
    THEN [exit |-> TRUE, reason |-> "long_stop_loss"]
    ELSE IF position_type = "SELL" /\ RLe(levels.stop_loss, current_price)
    THEN [exit |-> TRUE, reason |-> "short_stop_loss"]
    ELSE IF position_type = "BUY" /\ RLe(levels.take_profit, current_price)
    THEN [exit |-> TRUE, reason |-> "long_take_profit"]
    ELSE IF position_type = "SELL" /\ RLe(current_price, levels.take_profit)
    THEN [exit |-> TRUE, reason |-> "short_take_profit"]
    ELSE IF \/ position_type = "BUY" /\ signal_type = "SELL"
            \/ position_type = "SELL" /\ signal_type = "BUY"
    THEN [exit |-> TRUE, reason |-> "reversal"]
    ELSE [exit |-> FALSE, reason |-> "none"]

\* entry is the entry_price argument; no line of the function reads it
should_exit_position(pb, b, index, entry, position_type) ==
    ExitVerdict(position_type, R(b.Close),
                calculate_atr_stop_loss(b, index, position_type),
                generate_composite_signal(pb, b, index, index + 1).signal_type)

----------------------------------------------------------------------------
(* GoldTradingStrategy.calculate_position_size and execute_signal          *)
(* (gold_strategy.py:403-514).  The strategy's fields are the record       *)
(* strat; position is 1 (long), -1 (short) or 0.                           *)

\* the default of execute_signal's capital parameter (line 440)
DEFAULT_CAPITAL == 100000
dollar_per_point == 100

\* lines 418-431
strategy_position_ratio(capital, price, base_position_ratio, atr) ==
    IF AtrUsable(atr)
    THEN RMin(base_position_ratio,
              RDiv(RMul(RDiv(RMul(R(capital), Rat(7, 1000)),
                             R(atr * dollar_per_point)),
                        R(price)),
                   R(capital)))
    ELSE base_position_ratio

\* lines 403-438
strategy_position_size(capital, price, confidence, atr) ==
    Max(1, RInt(RDiv(RMul(R(capital),
                          strategy_position_ratio(capital, price,
                              RMul(POSITION_SIZE, confidence), atr)),
                     R(price))))

\* lines 473-480 and 500-507: the record of a closed position
ClosedTrade(sig, action, pnl) ==
    [timestamp |-> sig.timestamp, action |-> action, price |-> sig.price,
     entry_price |-> strat.entry_price, pnl |-> pnl,
     position_size |-> Abs(strat.position)]

\* lines 463-511: the fields after execute_signal(sig)
StratAfterSignal(sig) ==
    IF sig.signal_type = "BUY" /\ strat.position # 1
    THEN [strat EXCEPT
            !.signals_history = Append(@, sig),
            !.trades_history =
                IF strat.position = -1
                THEN Append(@, ClosedTrade(sig, "close_short",
                                  RDiv(RSub(strat.entry_price, R(sig.price)),
                                       strat.entry_price)))
                ELSE @,
            !.position = 1,
            !.entry_price = R(sig.price)]
    ELSE IF sig.signal_type = "SELL" /\ strat.position = 1
    THEN [strat EXCEPT
            !.signals_history = Append(@, sig),
            !.trades_history =
                Append(@, ClosedTrade(sig, "close_long",
                              RDiv(RSub(R(sig.price), strat.entry_price),
                                   strat.entry_price))),
            !.position = 0,
            !.entry_price = RZero]
    ELSE [strat EXCEPT !.signals_history = Append(@, sig)]

\* lines 450-459, 487-491, 499, 511: the dict execute_signal returns
trade_result(sig, capital, atr) ==
    [timestamp |-> sig.timestamp, price |-> sig.price,
     position_before |-> strat.position, reason |-> sig.reason,
     confidence |-> sig.confidence,
     action |->
        IF sig.signal_type = "BUY" /\ strat.position # 1
        THEN IF strat.position = 0 THEN "buy" ELSE "close_short_and_buy"
        ELSE IF sig.signal_type = "SELL" /\ strat.position = 1
        THEN "close_long"
        ELSE "hold",
     position_after |->
        IF sig.signal_type = "BUY" /\ strat.position # 1 THEN 1
        ELSE strat.position,
     position_size |->
        IF sig.signal_type = "BUY" /\ strat.position # 1
        THEN strategy_position_size(capital, sig.price, sig.confidence, atr)
        ELSE 0]

----------------------------------------------------------------------------
(* State after BacktestEngine.__init__ (backtest_engine.py:60-80).         *)

NoCall == [trade |-> [action |-> "none"], atr |-> NaN]
NoBar == [Close |-> 0]
NoSignal == [signal_type |-> "none"]
NoQuery == [kind |-> "none"]
NoAnswer == [kind |-> "none", again |-> FALSE]
NoResult == [kind |-> "none"]
NoBt == [signals |-> <<>>, trades |-> <<>>, returned |-> FALSE,
         started |-> FALSE]

\* GoldTradingStrategy.__init__ (gold_strategy.py:35-44)
InitStrat ==
    [position |-> 0, entry_price |-> RZero, signals_history |-> <<>>,
     trades_history |-> <<>>, last_ma_cross_signal |-> None,
     consecutive_signals |-> 0]

InitEngine ==
    /\ current_capital = INITIAL_CAPITAL
    /\ available_cash = R(INITIAL_CAPITAL)
    /\ current_position = 0
    /\ position_value = 0
    /\ entry_price = RZero
    /\ entry_time = None
    /\ equity_history = <<>>
    /\ trades_history = <<>>
    /\ signal_history = <<>>
    /\ call = NoCall

----------------------------------------------------------------------------
(* SpecLedger: a caller drives execute_trade directly, any action in any   *)
(* order, from a freshly constructed engine.                               *)

\* bound: number of execute_trade calls
MaxCalls == 3
\* inputs of the calls
Prices == {10000, 20000}
Quantities == {1, 50}
\* confidence given in the dict (<<c>>) or left out (<<>>, default 0.5)
Confidences == {<<>>, <<R(1)>>}
AtrCells == {NaN, 200}

TradeDict(ts, action, price, quantity, conf) ==
    LET base == [timestamp |-> ts, action |-> action, price |-> price,
                 quantity |-> quantity, reason |-> "caller"]
    IN  IF conf = <<>> THEN base ELSE ("confidence" :> conf[1]) @@ base

LedgerCall(action, price, quantity, conf, atr) ==
    /\ execute_trade(TradeDict(ncalls + 1, action, price, quantity, conf), atr)
    /\ ncalls' = ncalls + 1
    /\ UNCHANGED <<runVars, stratVars>>

CallBUY ==
    /\ ncalls < MaxCalls
    /\ \E p \in Prices, c \in Confidences, a \in AtrCells :
           LedgerCall("BUY", p, 1, c, a)
CallSELL ==
    /\ ncalls < MaxCalls
    /\ \E p \in Prices, q \in Quantities, a \in AtrCells :
           LedgerCall("SELL", p, q, <<>>, a)
CallSELL_SHORT ==
    /\ ncalls < MaxCalls
    /\ \E p \in Prices, c \in Confidences, a \in AtrCells :
           LedgerCall("SELL_SHORT", p, 1, c, a)
CallBUY_TO_COVER ==
    /\ ncalls < MaxCalls
    /\ \E p \in Prices, q \in Quantities, a \in AtrCells :
           LedgerCall("BUY_TO_COVER", p, q, <<>>, a)

InitLedger ==
    /\ InitEngine
    /\ ncalls = 0
    /\ pc = "idle" /\ i = 0 /\ bar = NoBar /\ prev = NoBar
    /\ signal = NoSignal /\ nruns = 0 /\ result = NoResult
    /\ query = NoQuery /\ answer = NoAnswer /\ strat = InitStrat
    /\ bt = NoBt

NextLedger == CallBUY \/ CallSELL \/ CallSELL_SHORT \/ CallBUY_TO_COVER

SpecLedger == InitLedger /\ [][NextLedger]_vars

----------------------------------------------------------------------------
(* BacktestEngine.update_equity (backtest_engine.py:289-311).              *)

\* faulty variant: a short position is valued as if it were long
update_equity_UnsignedPosition(timestamp, price) ==
    /\ position_value' = current_position * price
    /\ equity_history' =
           Append(equity_history,
                  [timestamp |-> timestamp,
                   equity |-> RAdd(available_cash,
                                   R(Abs(current_position) * price)),
                   cash |-> available_cash,
                   position_value |-> current_position * price,
                   position_size |-> current_position,
                   price |-> price])

update_equity(timestamp, price) ==
    /\ position_value' = current_position * price
    /\ equity_history' =
           Append(equity_history,
                  [timestamp |-> timestamp,
                   equity |-> RAdd(available_cash, R(current_position * price)),
                   cash |-> available_cash,
                   position_value |-> current_position * price,
                   position_size |-> current_position,
                   price |-> price])

----------------------------------------------------------------------------
(* BacktestEngine._generate_result, pairing loop (backtest_engine.py:      *)
(* 474-485): each closing trade marks the latest earlier opening trade of  *)
(* its side that carries no 'processed' key.  The marks are written into   *)
(* the dicts of trades_history.                                            *)

OpenActionOf(action) == IF action = "SELL" THEN "BUY" ELSE "SELL_SHORT"

SetMax(S) == CHOOSE x \in S : \A y \in S : y <= x

\* faulty variant: no opening trade is ever marked
PairUpTo_NeverMarks(h, k) == h

RECURSIVE PairUpTo(_, _)
PairUpTo(h, k) ==
    IF k = 0 THEN h
    ELSE LET g == PairUpTo(h, k - 1)
             open_trades ==
                 {j \in 1..(k - 1) :
                     /\ g[j].action = OpenActionOf(g[k].action)
                     /\ "processed" \notin DOMAIN g[j]}
         IN  IF g[k].action \in {"SELL", "BUY_TO_COVER"} /\ open_trades # {}
             THEN [g EXCEPT ![SetMax(open_trades)] = ("processed" :> TRUE) @@ @]
             ELSE g

----------------------------------------------------------------------------
(* BacktestEngine._generate_result, the statistics of the pairing loop     *)
(* (backtest_engine.py:462-516).  The locals of the loop are one record;   *)
(* step k reads the marks left by the steps before it.                     *)

RMax(a, b) == IF RLe(b, a) THEN a ELSE b

\* float('inf'), line 516
Inf == <<1, 0>>

\* dict.get(key, default)
Get(d, key, default) == IF key \in DOMAIN d THEN d[key] ELSE default

\* line 478: the earlier opening trades of the side that carry no mark
OpenTrades(g, k) ==
    {j \in 1..(k - 1) :
        /\ g[j].action = OpenActionOf(g[k].action)
        /\ "processed" \notin DOMAIN g[j]}

\* lines 465-471
NoStats ==
    [trade_returns |-> <<>>, winning_trades |-> 0, losing_trades |-> 0,
     winning_amount |-> RZero, losing_amount |-> RZero,
     max_winning_trade |-> RZero, max_losing_trade |-> RZero]

\* line 491: `x or y` takes y when x is absent or zero
open_cost(open_trade, qty) ==
    IF Get(open_trade, "cost", RZero) # RZero THEN open_trade.cost
    ELSE R(open_trade.price * qty)

\* line 492
close_value(trade, qty) ==
    IF Get(trade, "revenue", RZero) # RZero THEN trade.revenue
    ELSE R(trade.price * qty)

\* faulty variant: every pair is valued as a short round trip
pnl_amount_AsShort(trade, oc, cv) == RSub(oc, cv)

\* line 494
pnl_amount(trade, oc, cv) ==
    IF trade.action = "SELL" THEN RSub(cv, oc) ELSE RSub(oc, cv)

\* line 495
pnl_ratio(amount, oc) == IF oc # RZero THEN RDiv(amount, oc) ELSE RZero

\* lines 497-506
Book(acc, amount, ratio) ==
    IF RLt(RZero, ratio)
    THEN [acc EXCEPT !.trade_returns = Append(@, ratio),
                     !.winning_trades = @ + 1,
                     !.winning_amount = RAdd(@, amount),
                     !.max_winning_trade = RMax(@, ratio)]
    ELSE [acc EXCEPT !.trade_returns = Append(@, ratio),
                     !.losing_trades = @ + 1,
                     !.losing_amount = RAdd(@, amount),
                     !.max_losing_trade = RMin(@, ratio)]

BookAmount(acc, amount, oc) == Book(acc, amount, pnl_ratio(amount, oc))

BookPair(acc, trade, oc, cv) == BookAmount(acc, pnl_amount(trade, oc, cv), oc)

\* lines 487-489: a pair of quantity zero is dropped after the mark
PairQty(acc, open_trade, trade, qty) ==
    IF qty <= 0 THEN acc
    ELSE BookPair(acc, trade, open_cost(open_trade, qty),
                  close_value(trade, qty))

\* line 484
PairedOpen(g, k) == g[SetMax(OpenTrades(g, k))]

\* lines 475-487 for trade k, g being the log as marked so far
ReduceStep(acc, g, k) ==
    IF g[k].action \in {"SELL", "BUY_TO_COVER"} /\ OpenTrades(g, k) # {}
    THEN PairQty(acc, PairedOpen(g, k), g[k],
                 Min(Get(g[k], "quantity", 0),
                     Get(PairedOpen(g, k), "quantity", 0)))
    ELSE acc

RECURSIVE ReduceUpTo(_, _)
ReduceUpTo(h, k) ==
    IF k = 0 THEN NoStats
    ELSE ReduceStep(ReduceUpTo(h, k - 1), PairUpTo(h, k - 1), k)

\* faulty variant: every record of the log is counted
total_trades_AllRecords(h) == Len(h)

\* line 462
total_trades(h) ==
    Cardinality({j \in 1..Len(h) : h[j].action \in {"BUY", "SELL_SHORT"}})

\* faulty variant: the ratio is taken whatever the sign of the losses
profit_factor_Unguarded(winning_amount, losing_amount) ==
    <<Abs(winning_amount[1] * losing_amount[2]),
      Abs(winning_amount[2] * losing_amount[1])>>

\* line 516
profit_factor(winning_amount, losing_amount) ==
    IF RLt(losing_amount, RZero)
    THEN RAbs(RDiv(winning_amount, losing_amount))
    ELSE Inf

\* lines 510, 513
RatioOrZero(amount, count) ==
    IF count > 0 THEN RDiv(amount, R(count)) ELSE RZero

\* lines 508-546: the fields of the BacktestResult
ResultOf(acc, h, curve) ==
    [kind |-> "result",
     total_trades |-> total_trades(h),
     profitable_trades |-> acc.winning_trades,
     losing_trades |-> acc.losing_trades,
     win_rate |-> RatioOrZero(R(acc.winning_trades), total_trades(h)),
     avg_winning_trade |-> RatioOrZero(acc.winning_amount, acc.winning_trades),
     avg_losing_trade |-> RatioOrZero(acc.losing_amount, acc.losing_trades),
     max_winning_trade |-> acc.max_winning_trade,
     max_losing_trade |-> acc.max_losing_trade,
     profit_factor |-> profit_factor(acc.winning_amount, acc.losing_amount),
     trade_returns |-> acc.trade_returns,
     equity_curve |-> curve,
     trades_details |-> h]

\* faulty variant: trades_df is built after the loop has written its marks
BacktestResult_FromMarkedLog(h, curve) ==
    ResultOf(ReduceUpTo(h, Len(h)), PairUpTo(h, Len(h)), curve)

\* lines 433, 474-546: trades_df is built from the log before the loop
\* writes its marks
BacktestResult(h, curve) == ResultOf(ReduceUpTo(h, Len(h)), h, curve)

\* lines 438, 446-459: the statistics of the equity curve.  Powers and
\* square roots are kept unevaluated: annual_return stands for
\* base ^ (365 / days) - 1, and for the default 0 when days = 0;
\* sharpe_ratio stands for mean / std * sqrt(252) of its returns, and for
\* the default 0 when it holds none.

\* line 446
final_capital(curve) ==
    IF curve # <<>> THEN curve[Len(curve)].equity ELSE R(INITIAL_CAPITAL)

\* line 447
total_return(final) ==
    IF INITIAL_CAPITAL > 0
    THEN RDiv(RSub(final, R(INITIAL_CAPITAL)), R(INITIAL_CAPITAL))
    ELSE RZero

\* faulty variant: the power is taken whatever the span
annual_return_Unguarded(total, total_days) ==
    [base |-> RAdd(R(1), total), days |-> total_days]

\* lines 450-451
annual_return(total, total_days) ==
    IF total_days > 0
    THEN [base |-> RAdd(R(1), total), days |-> total_days]
    ELSE [base |-> R(1), days |-> 0]

\* line 438: equity.pct_change().dropna()
daily_returns(curve) ==
    IF Len(curve) <= 1 THEN <<>>
    ELSE [k \in 1..(Len(curve) - 1) |->
              RDiv(RSub(curve[k + 1].equity, curve[k].equity),
                   curve[k].equity)]

\* std() > 0: the returns are not all the same
StdPositive(returns) ==
    \E j, k \in 1..Len(returns) : returns[j] # returns[k]

\* line 454
sharpe_ratio(returns) ==
    IF Len(returns) > 1 /\ StdPositive(returns)
    THEN [returns |-> returns]
    ELSE [returns |-> <<>>]

\* line 457: expanding maximum
RECURSIVE Peak(_, _)
Peak(curve, k) ==
    IF k = 1 THEN curve[1].equity
    ELSE RMax(Peak(curve, k - 1), curve[k].equity)

\* line 458
Drawdown(curve, k) ==
    RDiv(RSub(curve[k].equity, Peak(curve, k)), Peak(curve, k))

RECURSIVE MinDrawdown(_, _)
MinDrawdown(curve, k) ==
    IF k = 1 THEN Drawdown(curve, 1)
    ELSE RMin(MinDrawdown(curve, k - 1), Drawdown(curve, k))

\* line 459
max_drawdown(curve) ==
    IF curve # <<>> THEN MinDrawdown(curve, Len(curve)) ELSE RZero

EquityStats(curve, total_days) ==
    [final_capital |-> final_capital(curve),
     total_return |-> total_return(final_capital(curve)),
     annual_return |-> annual_return(total_return(final_capital(curve)),
                                     total_days),
     sharpe_ratio |-> sharpe_ratio(daily_returns(curve)),
     max_drawdown |-> max_drawdown(curve),
     daily_returns |-> daily_returns(curve)]

\* lines 441-442, 450: the days between the first and the last row of the
\* table; both dates are datetime.now() for an empty table
DaySpans(rows) == IF rows <= 1 THEN {0} ELSE {0, rows - 1}

\* _generate_result as a whole: the marks stay in the engine's log
generate_result(total_days) ==
    /\ trades_history' = PairUpTo(trades_history, Len(trades_history))
    /\ result' = EquityStats(equity_history, total_days)
                     @@ BacktestResult(trades_history, equity_history)

----------------------------------------------------------------------------
(* SpecReducer: _generate_result called on an engine whose trade log holds *)
(* records of the four kinds, with the amounts the ledger records for them *)
(* (execute_trade, lines 190-286) at zero fees or at the configured fees,  *)
(* or with no recorded amount; the timestamp of a record is its place in   *)
(* the log.                                                                *)

\* bound: records in a trade log handed to the reducer
MaxLog == 4

LogTrade(action, price, quantity) ==
    [action |-> action, price |-> price, quantity |-> quantity]
WithCost(trade, cost) == ("cost" :> cost) @@ trade
WithRevenue(trade, revenue) == ("revenue" :> revenue) @@ trade

LogTrades ==
    {WithCost(LogTrade("BUY", 100, 10), R(1000)),
     LogTrade("BUY", 120, 10),
     WithRevenue(LogTrade("SELL", 110, 10), R(1100)),
     WithRevenue(LogTrade("SELL", 130, 10), R(1300)),
     WithRevenue(LogTrade("SELL", 90, 10), R(900)),
     WithRevenue(LogTrade("SELL_SHORT", 100, 10), Revenue(10, 100)),
     WithCost(LogTrade("BUY_TO_COVER", 90, 10), Cost(10, 90)),
     WithCost(LogTrade("BUY_TO_COVER", 110, 5), Cost(5, 110))}

RECURSIVE LogsOfLen(_)
LogsOfLen(n) ==
    IF n = 0 THEN {<<>>}
    ELSE {Append(h, ("timestamp" :> n) @@ t) :
              h \in LogsOfLen(n - 1), t \in LogTrades}

Logs == UNION {LogsOfLen(n) : n \in 0..MaxLog}

CallGenerateResult ==
    /\ result = NoResult
    /\ generate_result(0)
    /\ UNCHANGED <<current_capital, available_cash, current_position,
                   position_value, entry_price, entry_time, equity_history,
                   signal_history, call, ncalls, pc, i, bar, prev, signal,
                   nruns, stratVars>>

InitReducer ==
    /\ current_capital = INITIAL_CAPITAL
    /\ available_cash = R(INITIAL_CAPITAL)
    /\ current_position = 0 /\ position_value = 0
    /\ entry_price = RZero /\ entry_time = None
    /\ equity_history = <<>> /\ signal_history = <<>>
    /\ trades_history \in Logs
    /\ call = NoCall /\ ncalls = 0
    /\ pc = "idle" /\ i = 0 /\ bar = NoBar /\ prev = NoBar
    /\ signal = NoSignal /\ nruns = 0 /\ result = NoResult
    /\ query = NoQuery /\ answer = NoAnswer /\ strat = InitStrat
    /\ bt = NoBt

NextReducer == CallGenerateResult

SpecReducer == InitReducer /\ [][NextReducer]_vars

----------------------------------------------------------------------------
(* SpecReducerAgain: _generate_result called again on the engine it has    *)
(* already reduced; nothing resets the log between the calls               *)
(* (trades_history is emptied only by __init__, line 78, and by            *)
(* run_backtest, line 332), so a later call reads the marks of line 485.   *)

CallGenerateResultAgain ==
    /\ result # NoResult
    /\ generate_result(0)
    /\ UNCHANGED <<current_capital, available_cash, current_position,
                   position_value, entry_price, entry_time, equity_history,
                   signal_history, call, ncalls, pc, i, bar, prev, signal,
                   nruns, stratVars>>

NextReducerAgain ==
    \/ CallGenerateResult
    \/ CallGenerateResultAgain

SpecReducerAgain == InitReducer /\ [][NextReducerAgain]_vars

----------------------------------------------------------------------------
(* SpecRun: BacktestEngine.run_backtest (backtest_engine.py:313-416), one  *)
(* action per step of the loop body.  pc is the place in the body:         *)
(*   "idle"   no run in progress          "loop"   line 336, loop head     *)
(*   "cover"  line 347    "buy"   line 359                                 *)
(*   "sell"   line 371    "short" line 383                                 *)
(*   "exit"   line 394    "equity" line 413                                *)
(* The bar table is an input: each row is drawn when the loop reaches it,  *)
(* and the table may end after any row.                                    *)

\* bounds: rows of a bar table, run_backtest calls on one engine
MaxBars == 3
MaxRuns == 2

RunCloses == {10000, 20000}
RunAtrCells == {NaN, 200}
Trends == {"up", "rally", "flat", "down"}

\* a row: moving averages and MACD follow the trend, the band is wide; a
\* rally is an up-trend with an oversold RSI, which votes BUY on its own
Row(close, trend, atr) ==
    [Close |-> close,
     MA_fast |-> CASE trend \in {"up", "rally"} -> 10100
                   [] trend = "flat" -> 10000
                   [] trend = "down" -> 9900,
     MA_slow |-> 10000,
     RSI |-> IF trend = "rally" THEN 0 ELSE 50,
     MACD |-> CASE trend \in {"up", "rally"} -> 10
                [] trend = "flat" -> 0
                [] trend = "down" -> -10,
     MACD_Signal |-> CASE trend \in {"up", "rally"} -> 5
                       [] trend = "flat" -> 0
                       [] trend = "down" -> -5,
     BB_Upper |-> 30000, BB_Middle |-> 10000, BB_Lower |-> 5000,
     Volume_Ratio |-> R(1), Price_Change |-> RZero,
     ATR |-> atr]

RunRows == {Row(c, t, a) : c \in RunCloses, t \in Trends, a \in RunAtrCells}

\* lines 327-333: the reset at the start of run_backtest
ResetForRun ==
    /\ current_capital' = INITIAL_CAPITAL
    /\ available_cash' = R(INITIAL_CAPITAL)
    /\ current_position' = 0
    /\ position_value' = 0
    /\ equity_history' = <<>>
    /\ trades_history' = <<>>
    /\ signal_history' = <<>>
    /\ UNCHANGED <<entry_price, entry_time>>

StartRun ==
    /\ pc = "idle"
    /\ nruns < MaxRuns
    /\ ResetForRun
    /\ nruns' = nruns + 1
    /\ i' = 0
    /\ pc' = "loop"
    /\ bar' = NoBar /\ prev' = NoBar /\ signal' = NoSignal
    /\ call' = NoCall
    /\ result' = NoResult
    /\ UNCHANGED <<ncalls, stratVars>>

\* faulty variant: the opening order is sent without closing the opposite position
Dispatch_OpensWithoutClosing(sig) ==
    IF sig.signal_type = "BUY" /\ current_position <= 0 THEN "buy"
    ELSE IF sig.signal_type = "SELL" /\ current_position >= 0 THEN "short"
    ELSE IF current_position # 0 THEN "exit"
    ELSE "equity"

\* faulty variant: a long position is not sold on a SELL signal but left
\* to the exit check
Dispatch_LongLeftToExitCheck(sig) ==
    IF sig.signal_type = "BUY" /\ current_position <= 0
    THEN IF current_position < 0 THEN "cover" ELSE "buy"
    ELSE IF sig.signal_type = "SELL" /\ current_position = 0
    THEN "short"
    ELSE IF current_position # 0 THEN "exit"
    ELSE "equity"

\* faulty variant: a signal in the direction of the position extends it
Dispatch_ExtendsPosition(sig) ==
    IF sig.signal_type = "BUY"
    THEN IF current_position < 0 THEN "cover" ELSE "buy"
    ELSE IF sig.signal_type = "SELL"
    THEN IF current_position > 0 THEN "sell" ELSE "short"
    ELSE IF current_position # 0 THEN "exit"
    ELSE "equity"

\* faulty variant: the exit check comes first whenever a position is held
Dispatch_ExitCheckFirst(sig) ==
    IF current_position # 0 THEN "exit"
    ELSE IF sig.signal_type = "BUY" THEN "buy"
    ELSE IF sig.signal_type = "SELL" THEN "short"
    ELSE "equity"

\* lines 345, 369, 394: the branch the bar takes
Dispatch(sig) ==
    IF sig.signal_type = "BUY" /\ current_position <= 0
    THEN IF current_position < 0 THEN "cover" ELSE "buy"
    ELSE IF sig.signal_type = "SELL" /\ current_position >= 0
    THEN IF current_position > 0 THEN "sell" ELSE "short"
    ELSE IF current_position # 0 THEN "exit"
    ELSE "equity"

\* lines 336-342: next row, its composite signal, signal_history.append
NextBar ==
    /\ pc = "loop"
    /\ i < MaxBars
    /\ \E b \in RunRows :
         \E sig \in {generate_composite_signal(bar, b, i, i + 1)} :
             /\ bar' = b
             /\ prev' = bar
             /\ signal' = sig
             /\ signal_history' = Append(signal_history, sig)
             /\ pc' = Dispatch(sig)
    /\ UNCHANGED <<current_capital, available_cash, current_position,
                   position_value, entry_price, entry_time, equity_history,
                   trades_history, call, ncalls, i, nruns, result, stratVars>>

RunTrade(action, quantity, reason) ==
    [timestamp |-> signal.timestamp, action |-> action,
     price |-> signal.price, quantity |-> quantity, reason |-> reason,
     confidence |-> signal.confidence]

RunStep(to, trade) ==
    /\ execute_trade(trade, bar.ATR)
    /\ pc' = to
    /\ UNCHANGED <<ncalls, i, bar, prev, signal, nruns, result, stratVars>>

\* lines 347-356
FlipCover ==
    /\ pc = "cover"
    /\ RunStep("buy",
               RunTrade("BUY_TO_COVER", Abs(current_position), "close_short"))
\* lines 359-367
OpenLong ==
    /\ pc = "buy"
    /\ RunStep("equity", RunTrade("BUY", 1, "signal"))
\* lines 371-380
FlipSell ==
    /\ pc = "sell"
    /\ RunStep("short", RunTrade("SELL", current_position, "close_long"))
\* lines 383-391
OpenShort ==
    /\ pc = "short"
    /\ RunStep("equity", RunTrade("SELL_SHORT", 1, "signal"))

\* lines 394-410
ExitCheck ==
    /\ pc = "exit"
    /\ \E verdict \in {should_exit_position(prev, bar, i, entry_price,
                            IF current_position > 0 THEN "BUY" ELSE "SELL")} :
           IF verdict.exit
           THEN execute_trade(
                    RunTrade(IF current_position > 0 THEN "SELL"
                             ELSE "BUY_TO_COVER",
                             Abs(current_position), verdict.reason),
                    bar.ATR)
           ELSE UNCHANGED <<engineVars, call>>
    /\ pc' = "equity"
    /\ UNCHANGED <<ncalls, i, bar, prev, signal, nruns, result, stratVars>>

\* line 413, then the next iteration
UpdateEquity ==
    /\ pc = "equity"
    /\ update_equity(i + 1, bar.Close)
    /\ i' = i + 1
    /\ pc' = "loop"
    /\ UNCHANGED <<current_capital, available_cash, current_position,
                   entry_price, entry_time, trades_history, signal_history,
                   call, ncalls, bar, prev, signal, nruns, result,
                   stratVars>>

\* line 416: the table has ended; _generate_result pairs the trades
GenerateResult ==
    /\ pc = "loop"
    /\ \E total_days \in DaySpans(i) : generate_result(total_days)
    /\ pc' = "idle"
    /\ UNCHANGED <<current_capital, available_cash, current_position,
                   position_value, entry_price, entry_time, equity_history,
                   signal_history, call, ncalls, i, bar, prev, signal, nruns,
                   stratVars>>

InitRun ==
    /\ InitEngine
    /\ ncalls = 0
    /\ pc = "idle" /\ i = 0 /\ bar = NoBar /\ prev = NoBar
    /\ signal = NoSignal /\ nruns = 0 /\ result = NoResult
    /\ query = NoQuery /\ answer = NoAnswer /\ strat = InitStrat
    /\ bt = NoBt

NextRun ==
    \/ StartRun \/ NextBar \/ FlipCover \/ OpenLong \/ FlipSell \/ OpenShort
    \/ ExitCheck \/ UpdateEquity \/ GenerateResult

SpecRun == InitRun /\ [][NextRun]_vars

----------------------------------------------------------------------------
(* SpecStrategy: the strategy's pure functions applied to drawn inputs.    *)
(* query is the argument list (row index-1, row index, index, entry        *)
(* price, position type); answer is what the function returned.            *)

StratCloses == {9690, 10000}
StratFastMAs == {9990, 10005, 10010, 10060}
StratRSIs == {0, 6, 50, 100}
StratMACDs == {-10, 10}
StratMids == {9000, 11000}
StratAtrCells == {NaN, 0, 200}
StratIndexes == {0, 1, 14}
StratEntries == {9000, 10000}

StratRow(close, fast, rsi, macd, mid, atr) ==
    [Close |-> close, MA_fast |-> fast, MA_slow |-> 10000, RSI |-> rsi,
     MACD |-> macd, MACD_Signal |-> 5,
     BB_Upper |-> 30000, BB_Middle |-> mid, BB_Lower |-> 5000,
     Volume_Ratio |-> R(1), Price_Change |-> RZero, ATR |-> atr]

StratRows ==
    {StratRow(c, f, r, m, d, a) :
        c \in StratCloses, f \in StratFastMAs, r \in StratRSIs,
        m \in StratMACDs, d \in StratMids, a \in StratAtrCells}

\* the row before: below or above both crossings
StratPrevRows ==
    {StratRow(10000, 9990, 50, -10, 9000, NaN),
     StratRow(10000, 10010, 50, 10, 9000, NaN)}

InitStrategy ==
    /\ InitEngine
    /\ ncalls = 0
    /\ pc = "idle" /\ i = 0 /\ bar = NoBar /\ prev = NoBar
    /\ signal = NoSignal /\ nruns = 0 /\ result = NoResult
    /\ query \in [pb : StratPrevRows, b : StratRows, index : StratIndexes,
                  entry : StratEntries, position_type : {"BUY", "SELL"}]
    /\ answer = NoAnswer
    /\ strat = InitStrat
    /\ bt = NoBt

\* bound: execute_signal calls made on one strategy object
MaxExecutes == 2

\* strategy.generate_composite_signal(data, index)
AskSignal ==
    /\ answer' = [kind |-> "signal", again |-> answer.kind = "signal",
                  value |-> generate_composite_signal(query.pb, query.b,
                                query.index, query.index + 1)]
    /\ UNCHANGED <<engineVars, call, ncalls, runVars, query, strat, bt>>

\* faulty variant: the exit check records the signal it generates, as
\* execute_signal does
AskExit_RecordsSignal ==
    /\ Len(strat.signals_history) < MaxExecutes
    /\ answer' = [kind |-> "exit", again |-> answer.kind = "exit",
                  value |-> should_exit_position(query.pb, query.b,
                                query.index, query.entry,
                                query.position_type)]
    /\ strat' = [strat EXCEPT !.signals_history =
                    Append(@, generate_composite_signal(query.pb, query.b,
                                  query.index, query.index + 1))]
    /\ UNCHANGED <<engineVars, call, ncalls, runVars, query, bt>>

\* strategy.should_exit_position(data, index, entry_price, position_type)
AskExit ==
    /\ answer' = [kind |-> "exit", again |-> answer.kind = "exit",
                  value |-> should_exit_position(query.pb, query.b,
                                query.index, query.entry,
                                query.position_type)]
    /\ UNCHANGED <<engineVars, call, ncalls, runVars, query, strat, bt>>

\* strategy.execute_signal(signal) on the composite signal of the bar,
\* capital left at its default
ExecuteSignal ==
    /\ Len(strat.signals_history) < MaxExecutes
    /\ \E sig \in {generate_composite_signal(query.pb, query.b, query.index,
                                              query.index + 1)} :
           /\ strat' = StratAfterSignal(sig)
           /\ answer' = [kind |-> "execute", again |-> FALSE,
                         value |-> trade_result(sig, DEFAULT_CAPITAL,
                                                query.b.ATR)]
    /\ UNCHANGED <<engineVars, call, ncalls, runVars, query, bt>>

NextStrategy == AskSignal \/ AskExit \/ ExecuteSignal

SpecStrategy == InitStrategy /\ [][NextStrategy]_vars

----------------------------------------------------------------------------
(* SpecBacktest: GoldTradingStrategy.backtest (gold_strategy.py:570-620),  *)
(* one action per step of the loop body.  pc is the place in the body:     *)
(*   "idle"      no call in progress    "bt_loop"   line 585, loop head    *)
(*   "bt_exit"   line 591               "bt_signal" line 612               *)
(* The rows are those of SpecRun, drawn when the loop reaches them.        *)

\* bound: rows of the table given to backtest
MaxBtBars == 3

\* lines 581-583
BtStart ==
    /\ pc = "idle"
    /\ ~bt.started
    /\ bt' = [signals |-> <<>>, trades |-> <<>>, returned |-> FALSE,
              started |-> TRUE]
    /\ i' = 0
    /\ pc' = "bt_loop"
    /\ UNCHANGED <<engineVars, call, ncalls, bar, prev, signal, nruns, result,
                   query, answer, strat>>

\* lines 585-591: next row, its composite signal, signals.append
BtNextBar ==
    /\ pc = "bt_loop"
    /\ i < MaxBtBars
    /\ \E b \in RunRows :
         \E sig \in {generate_composite_signal(bar, b, i, i + 1)} :
             /\ bar' = b
             /\ prev' = bar
             /\ signal' = sig
             /\ bt' = [bt EXCEPT !.signals = Append(@, sig)]
    /\ pc' = IF strat.position # 0 THEN "bt_exit" ELSE "bt_signal"
    /\ UNCHANGED <<engineVars, call, ncalls, i, nruns, result, query, answer,
                   strat>>

\* lines 598-605: the signal built to close the position
exit_signal(sig, exit_reason) ==
    [timestamp |-> sig.timestamp, signal_type |-> "HOLD", price |-> sig.price,
     confidence |-> sig.confidence, reason |-> exit_reason]

\* trades.append(trade_result) unless its action is 'hold'
BtAppend(trades, trade) ==
    IF trade.action # "hold" THEN Append(trades, trade) ELSE trades

\* lines 607-609, 613-615, 618-620: execute_signal and the append
BtExecute(sig) ==
    /\ strat' = StratAfterSignal(sig)
    /\ bt' = [bt EXCEPT !.trades =
                 BtAppend(@, trade_result(sig, DEFAULT_CAPITAL, bar.ATR))]

\* the exit check of the bar, lines 592-595
BtVerdict ==
    should_exit_position(prev, bar, i, strat.entry_price,
                         IF strat.position > 0 THEN "BUY" ELSE "SELL")

\* lines 591-609
BtExitCheck ==
    /\ pc = "bt_exit"
    /\ IF BtVerdict.exit
       THEN BtExecute(exit_signal(signal, BtVerdict.reason))
       ELSE UNCHANGED <<strat, bt>>
    /\ pc' = "bt_signal"
    /\ UNCHANGED <<engineVars, call, ncalls, i, bar, prev, signal, nruns,
                   result, query, answer>>

\* lines 612-620, then the next iteration
BtSignal ==
    /\ pc = "bt_signal"
    /\ IF \/ signal.signal_type = "BUY" /\ strat.position # 1
          \/ signal.signal_type = "SELL" /\ strat.position # -1
       THEN BtExecute(signal)
       ELSE UNCHANGED <<strat, bt>>
    /\ i' = i + 1
    /\ pc' = "bt_loop"
    /\ UNCHANGED <<engineVars, call, ncalls, bar, prev, signal, nruns, result,
                   query, answer>>

\* line 622: the table has ended
BtReturn ==
    /\ pc = "bt_loop"
    /\ bt' = [bt EXCEPT !.returned = TRUE]
    /\ pc' = "idle"
    /\ UNCHANGED <<engineVars, call, ncalls, i, bar, prev, signal, nruns,
                   result, query, answer, strat>>

InitBacktest ==
    /\ InitEngine
    /\ ncalls = 0
    /\ pc = "idle" /\ i = 0 /\ bar = NoBar /\ prev = NoBar
    /\ signal = NoSignal /\ nruns = 0 /\ result = NoResult
    /\ query = NoQuery /\ answer = NoAnswer /\ strat = InitStrat
    /\ bt = NoBt

NextBacktest ==
    BtStart \/ BtNextBar \/ BtExitCheck \/ BtSignal \/ BtReturn

SpecBacktest == InitBacktest /\ [][NextBacktest]_vars

----------------------------------------------------------------------------
(* Observations on the trade log.                                          *)

LastTrade == trades_history[Len(trades_history)]

\* the step appended exactly one record and changed none before it
AppendedOne ==
    /\ Len(trades_history') = Len(trades_history) + 1
    /\ SubSeq(trades_history', 1, Len(trades_history)) = trades_history
NewTrade == trades_history'[Len(trades_history')]

LedgerUnchanged ==
    UNCHANGED <<trades_history, available_cash, current_position,
                entry_price, entry_time>>

\* the step is an execute_trade call of the given action (no two calls
\* carry the same timestamp and action)
Calls(action) ==
    /\ call' # call
    /\ call'.trade.action = action

SignedQuantity(t) ==
    CASE t.action \in {"BUY", "BUY_TO_COVER"} -> t.quantity
      [] t.action \in {"SELL", "SELL_SHORT"} -> -t.quantity

RECURSIVE SignedSum(_)
SignedSum(h) ==
    IF h = <<>> THEN 0
    ELSE SignedSum(SubSeq(h, 1, Len(h) - 1)) + SignedQuantity(h[Len(h)])

\* the last execute_trade call recorded a trade (SpecLedger: one timestamp
\* per call)
LastCallRecorded ==
    /\ trades_history # <<>>
    /\ LastTrade.timestamp = call.trade.timestamp
    /\ LastTrade.action = call.trade.action

----------------------------------------------------------------------------
(* C1: after any sequence of execute_trade calls from a reset engine,      *)
(* current_position = sum of recorded BUY and BUY_TO_COVER quantities      *)
(* minus recorded SELL and SELL_SHORT quantities.                          *)
C1_PositionIsSignedSum == current_position = SignedSum(trades_history)

\* three calls: a BUY, a clamped SELL that closes it, and a SELL_SHORT
C1_Witness ==
    /\ Len(trades_history) = 3
    /\ trades_history[1].action = "BUY"
    /\ trades_history[2].action = "SELL"
    /\ trades_history[2].quantity = trades_history[1].quantity
    /\ trades_history[3].action = "SELL_SHORT"
    /\ current_position < 0

(* C2: the exit check measures stop and target from the entry price E: at  *)
(* index >= 14 with a valid ATR A > 0 a LONG exits as stop-loss when       *)
(* close <= E - 1.5*A and as take-profit when close >= E + 2.5*A (mirror   *)
(* for SHORT); with an unusable ATR the distances are E*stop_loss_pct and  *)
(* E*take_profit_pct.  LONG, E = 100, A = 2, close = 96.9 (here in         *)
(* hundredths: 10000, 200, 9690) is a stop-loss exit.                      *)
C2_ExitMeasuredFromEntry ==
    (answer.kind = "exit" /\ query.index >= 14)
    => LET E == R(query.entry)
           close == R(query.b.Close)
           usable == query.b.ATR # NaN /\ query.b.ATR # 0
           stop_distance ==
               IF usable THEN RMul(Rat(3, 2), R(query.b.ATR))
               ELSE RMul(E, STOP_LOSS_PCT)
           target_distance ==
               IF usable THEN RMul(Rat(5, 2), R(query.b.ATR))
               ELSE RMul(E, TAKE_PROFIT_PCT)
       IN  IF query.position_type = "BUY"
           THEN /\ RLe(close, RSub(E, stop_distance))
                   => answer.value.reason = "long_stop_loss"
                /\ (RLt(RSub(E, stop_distance), close)
                    /\ RLe(RAdd(E, target_distance), close))
                   => answer.value.reason = "long_take_profit"
           ELSE /\ RLe(RAdd(E, stop_distance), close)
                   => answer.value.reason = "short_stop_loss"
                /\ (RLt(close, RAdd(E, stop_distance))
                    /\ RLe(close, RSub(E, target_distance)))
                   => answer.value.reason = "short_take_profit"

(* C3: a BUY whose cost exceeds the available cash changes nothing: no     *)
(* record, cash, position, entry price and entry time as before.           *)
C3_BuyRejectedNoEffect ==
    [][ (/\ Calls("BUY")
         /\ LET t == call'.trade
                q == calculate_position_size(t.price, Confidence(t), call'.atr)
            IN  RLt(available_cash, RMul(R(q * t.price), CostFactor)))
        => LedgerUnchanged ]_vars

\* a BUY was the last call, it was rejected, and the engine went on
C3_Witness ==
    /\ call.trade.action = "BUY"
    /\ ~LastCallRecorded
    /\ ncalls >= 2
    /\ RLt(available_cash, RMul(R(call.trade.price), CostFactor))

(* C4 as stated: a SELL_SHORT whose sized order costs more than the        *)
(* available cash is dropped whole, like a BUY.                            *)
C4_ShortDroppedWhenCashShort ==
    [][ (/\ Calls("SELL_SHORT")
         /\ LET t == call'.trade
                q == calculate_position_size(t.price, Confidence(t), call'.atr)
            IN  RLt(available_cash, RMul(R(q * t.price), CostFactor)))
        => LedgerUnchanged ]_vars

(* C4 amended: a SELL_SHORT is never dropped, whatever the cash: it always *)
(* executes in full for the sized quantity (one record, position down by   *)
(* it, cash up by the revenue).                                            *)
C4_ShortAlwaysExecutesInFull ==
    [][ Calls("SELL_SHORT")
        => LET t == call'.trade
               q == calculate_position_size(t.price, Confidence(t), call'.atr)
           IN  /\ AppendedOne
               /\ NewTrade.action = "SELL_SHORT"
               /\ NewTrade.quantity = q
               /\ current_position' = current_position - q
               /\ available_cash' =
                      RAdd(available_cash, RMul(R(q * t.price), RevenueFactor)) ]_vars

\* a recorded SELL_SHORT whose cost exceeded the cash held before it
C4_Witness ==
    /\ call.trade.action = "SELL_SHORT"
    /\ LastCallRecorded
    /\ RLt(RSub(available_cash, LastTrade.revenue),
           RMul(R(LastTrade.quantity * LastTrade.price), CostFactor))

(* C5: a SELL of requested quantity r at position p executes min(r, p)     *)
(* when p > 0 and nothing when p <= 0; the position never goes negative    *)
(* by a SELL.                                                              *)
C5_SellClamped ==
    [][ Calls("SELL")
        => LET r == call'.trade.quantity
               p == current_position
           IN  IF p > 0
               THEN /\ AppendedOne
                    /\ NewTrade.action = "SELL"
                    /\ NewTrade.quantity = Min(r, p)
                    /\ current_position' = p - Min(r, p)
                    /\ current_position' >= 0
               ELSE LedgerUnchanged ]_vars

\* requested 50, held less, executed exactly what was held
C5_Witness ==
    /\ call.trade.action = "SELL"
    /\ LastCallRecorded
    /\ call.trade.quantity = 50
    /\ LastTrade.quantity < 50
    /\ current_position = 0

(* C6: a BUY_TO_COVER executes min(requested, -position) when position < 0 *)
(* and nothing (no record, no cash debited) when position >= 0.            *)
C6_CoverOnlyShort ==
    [][ Calls("BUY_TO_COVER")
        => LET r == call'.trade.quantity
               p == current_position
           IN  IF p < 0
               THEN /\ AppendedOne
                    /\ NewTrade.quantity = Min(r, -p)
                    /\ current_position' = p + Min(r, -p)
               ELSE LedgerUnchanged ]_vars

(* C7: right after an executed SELL or BUY_TO_COVER that leaves the        *)
(* position at 0, entry_price = 0 and entry_time = None; one that leaves   *)
(* a remainder leaves both unchanged.                                      *)
C7_EntryResetWhenFlat ==
    [][ ((Calls("SELL") \/ Calls("BUY_TO_COVER")) /\ AppendedOne)
        => IF current_position' = 0
           THEN entry_price' = RZero /\ entry_time' = None
           ELSE UNCHANGED <<entry_price, entry_time>> ]_vars

\* a partial SELL kept the entry state, the SELL after it cleared it
C7_Witness ==
    /\ Len(trades_history) = 3
    /\ trades_history[2].action = "SELL"
    /\ trades_history[3].action = "SELL"
    /\ current_position = 0
    /\ entry_price = RZero
    /\ entry_time = None

(* C8: on a bar where the position flips, run_backtest closes before it    *)
(* opens: a composite BUY met with a short of quantity q goes to the       *)
(* cover step, that step records a BUY_TO_COVER of exactly q and leaves    *)
(* the position at 0, and the position is 0 whenever the BUY is sized and  *)
(* executed; the same with SELL, a long of q, SELL and SELL_SHORT.         *)
C8_FlipClosesBeforeOpening ==
    [][ /\ (pc = "loop" /\ Len(signal_history') = Len(signal_history) + 1)
           => /\ (signal'.signal_type = "BUY" /\ current_position < 0)
                 => pc' = "cover"
              /\ (signal'.signal_type = "SELL" /\ current_position > 0)
                 => pc' = "sell"
        /\ pc = "cover"
           => /\ AppendedOne
              /\ NewTrade.action = "BUY_TO_COVER"
              /\ NewTrade.quantity = -current_position
              /\ NewTrade.timestamp = signal.timestamp
              /\ current_position' = 0
              /\ pc' = "buy"
        /\ pc = "buy"
           => /\ call'.trade.action = "BUY"
              /\ current_position = 0
        /\ pc = "sell"
           => /\ AppendedOne
              /\ NewTrade.action = "SELL"
              /\ NewTrade.quantity = current_position
              /\ NewTrade.timestamp = signal.timestamp
              /\ current_position' = 0
              /\ pc' = "short"
        /\ pc = "short"
           => /\ call'.trade.action = "SELL_SHORT"
              /\ current_position = 0 ]_vars

\* a short of 2 or more was covered in full and the long opened on that bar
C8_Witness ==
    /\ Len(trades_history) = 3
    /\ trades_history[1].action = "SELL_SHORT"
    /\ trades_history[1].quantity >= 2
    /\ trades_history[2].action = "BUY_TO_COVER"
    /\ trades_history[2].quantity = trades_history[1].quantity
    /\ trades_history[3].action = "BUY"
    /\ trades_history[3].timestamp = trades_history[2].timestamp
    /\ current_position > 0

(* C9: at the start of every run_backtest call, whatever the previous run  *)
(* left, the whole state is reset: cash = initial capital, position 0,     *)
(* entry_price 0, entry_time None, the three histories empty.              *)
C9_RunStartsFromFullReset ==
    [][ (pc = "idle" /\ pc' = "loop")
        => /\ available_cash' = R(INITIAL_CAPITAL)
           /\ current_position' = 0
           /\ entry_price' = RZero
           /\ entry_time' = None
           /\ trades_history' = <<>>
           /\ equity_history' = <<>>
           /\ signal_history' = <<>> ]_vars

(* C10: the trend filter never upgrades: the final direction is the fusion *)
(* direction or HOLD; a final BUY implies fusion BUY, fast MA > slow MA,   *)
(* MACD > 0, |fast - slow| / close >= 0.001 and close >= BB_Middle (the    *)
(* mirror for SELL); a fused BUY or SELL that fails its conditions comes   *)
(* out as HOLD with confidence 0.                                          *)
C10_FilterNeverUpgrades ==
    answer.kind = "signal"
    => LET fused == Fusion(query.pb, query.b, query.index)
           final == answer.value
           b == query.b
           wide == Abs(b.MA_fast - b.MA_slow) * 1000 >= b.Close
           long_ok == /\ b.MA_fast > b.MA_slow /\ b.MACD > 0
                      /\ wide /\ b.Close >= b.BB_Middle
           short_ok == /\ b.MA_fast < b.MA_slow /\ b.MACD < 0
                       /\ wide /\ b.Close <= b.BB_Middle
       IN  /\ final.signal_type \in {fused.signal, "HOLD"}
           /\ final.signal_type = "BUY" => (fused.signal = "BUY" /\ long_ok)
           /\ final.signal_type = "SELL" => (fused.signal = "SELL" /\ short_ok)
           /\ ((fused.signal = "BUY" /\ ~long_ok)
                \/ (fused.signal = "SELL" /\ ~short_ok))
              => (final.signal_type = "HOLD" /\ final.confidence = RZero)

\* fusion chose BUY above the threshold and the filter turned it into HOLD
C10_Witness ==
    /\ answer.kind = "signal"
    /\ Fusion(query.pb, query.b, query.index).signal = "BUY"
    /\ RLt(signal_threshold,
           Fusion(query.pb, query.b, query.index).confidence)
    /\ query.b.MA_fast > query.b.MA_slow
    /\ query.b.MACD <= 0
    /\ answer.value.signal_type = "HOLD"
    /\ answer.value.confidence = RZero

----------------------------------------------------------------------------
(* Observations on a composite signal.                                     *)

\* the sub-signals of the query and the sum of confidence * w[k] over the
\* sub-signals voting `direction`
QuerySubs == SubSignals(query.pb, query.b, query.index)
RECURSIVE WeightedScore(_, _, _, _)
WeightedScore(subs, w, direction, k) ==
    IF k = 0 THEN RZero
    ELSE RAdd(WeightedScore(subs, w, direction, k - 1),
              IF subs[k].signal = direction
              THEN RMul(subs[k].confidence, w[k])
              ELSE RZero)

\* the fast MA crosses above the slow MA at the query's bar
CrossesUp ==
    /\ query.index >= 1
    /\ query.pb.MA_fast <= query.pb.MA_slow
    /\ query.b.MA_fast > query.b.MA_slow
\* gap >= 0.1% of price and close >= BB_Middle
LongTrendButMacd ==
    /\ Abs(query.b.MA_fast - query.b.MA_slow) * 1000 >= query.b.Close
    /\ query.b.Close >= query.b.BB_Middle

(* C11 as stated: on every bar i >= 1 where the fast MA crosses above the  *)
(* slow MA with MACD > 0, gap >= 0.1% of price and close >= BB_Middle the  *)
(* composite signal is BUY.                                                *)
C11_CrossingGivesBuy ==
    (answer.kind = "signal" /\ CrossesUp /\ query.b.MACD > 0
     /\ LongTrendButMacd)
    => answer.value.signal_type = "BUY"

(* C11 amended: on such a bar the composite signal is BUY exactly when the *)
(* BUY score beats the SELL score and the threshold 0.18, and HOLD         *)
(* otherwise; on a crossing bar with MACD < 0 it is HOLD.                  *)
C11_CrossingBuyIffScoreWins ==
    (answer.kind = "signal" /\ CrossesUp)
    => /\ (query.b.MACD > 0 /\ LongTrendButMacd)
          => IF /\ RLt(Score(QuerySubs, "SELL", 5), Score(QuerySubs, "BUY", 5))
                /\ RLt(Rat(18, 100), Score(QuerySubs, "BUY", 5))
             THEN answer.value.signal_type = "BUY"
             ELSE answer.value.signal_type = "HOLD"
       /\ query.b.MACD < 0 => answer.value.signal_type = "HOLD"

\* a crossing of 0.6% with a neutral RSI comes out BUY
C11_Witness ==
    /\ answer.kind = "signal"
    /\ CrossesUp
    /\ query.b.MA_fast = 10060
    /\ query.b.RSI = 50
    /\ query.b.MACD > 0
    /\ LongTrendButMacd
    /\ answer.value.signal_type = "BUY"

(* C12: with buy_score and sell_score the sums of confidence * weight, the *)
(* weight of a sub-signal being the one the weights table gives its name   *)
(* (MA 0.35, MACD 0.25, RSI 0.20, Bollinger 0.15, volume 0.05): fusion is  *)
(* BUY iff buy_score > sell_score and buy_score > 0.18, SELL iff the       *)
(* mirror, HOLD otherwise; a composite HOLD has confidence 0 and a         *)
(* composite BUY/SELL has its winning score, above 0.18, as confidence.    *)
C12_FusionByWeightedScores ==
    answer.kind = "signal"
    => LET by_name == <<weights.ma, weights.rsi, weights.macd, weights.bb,
                        weights.volume>>
           buy_score == WeightedScore(QuerySubs, by_name, "BUY", 5)
           sell_score == WeightedScore(QuerySubs, by_name, "SELL", 5)
           fused == Fusion(query.pb, query.b, query.index).signal
           final == answer.value
       IN  /\ fused = "BUY"
              <=> (RLt(sell_score, buy_score) /\ RLt(Rat(18, 100), buy_score))
           /\ fused = "SELL"
              <=> (RLt(buy_score, sell_score) /\ RLt(Rat(18, 100), sell_score))
           /\ final.signal_type = "HOLD" => final.confidence = RZero
           /\ final.signal_type = "BUY"
              => (final.confidence = buy_score
                  /\ RLt(Rat(18, 100), final.confidence))
           /\ final.signal_type = "SELL"
              => (final.confidence = sell_score
                  /\ RLt(Rat(18, 100), final.confidence))

(* C12, with the scores as the code sums them (weight_list by position):   *)
(* the threshold rule itself and the confidences.                          *)
C12_FusionByPositionalScores ==
    answer.kind = "signal"
    => LET buy_score == WeightedScore(QuerySubs, weight_list, "BUY", 5)
           sell_score == WeightedScore(QuerySubs, weight_list, "SELL", 5)
           fused == Fusion(query.pb, query.b, query.index).signal
           final == answer.value
       IN  /\ fused = "BUY"
              <=> (RLt(sell_score, buy_score) /\ RLt(Rat(18, 100), buy_score))
           /\ fused = "SELL"
              <=> (RLt(buy_score, sell_score) /\ RLt(Rat(18, 100), sell_score))
           /\ final.signal_type = "HOLD" => final.confidence = RZero
           /\ final.signal_type = "BUY"
              => (final.confidence = buy_score
                  /\ RLt(Rat(18, 100), final.confidence))
           /\ final.signal_type = "SELL"
              => (final.confidence = sell_score
                  /\ RLt(Rat(18, 100), final.confidence))

----------------------------------------------------------------------------
(* Observations on a reduced log.                                          *)

Reduced == result.kind = "result"

\* the records of the engine's log that carry the reducer's mark
Marked == {j \in 1..Len(trades_history) : "processed" \in DOMAIN trades_history[j]}

IsOpening(t) == t.action \in {"BUY", "SELL_SHORT"}
IsClosing(t) == t.action \in {"SELL", "BUY_TO_COVER"}
Corresponds(open, close) ==
    \/ open.action = "BUY" /\ close.action = "SELL"
    \/ open.action = "SELL_SHORT" /\ close.action = "BUY_TO_COVER"

\* the pairs <<opening, closing>> made over the first k records when each
\* closing record, in log order, takes the latest earlier opening record of
\* its kind that no pair holds yet
RECURSIVE Matched(_, _)
Matched(h, k) ==
    IF k = 0 THEN <<>>
    ELSE LET m == Matched(h, k - 1)
             free == {j \in 1..(k - 1) :
                         /\ IsOpening(h[j]) /\ Corresponds(h[j], h[k])
                         /\ \A n \in 1..Len(m) : m[n][1] # j}
         IN  IF IsClosing(h[k]) /\ free # {}
             THEN Append(m, <<SetMax(free), k>>)
             ELSE m

\* the P&L ratio of one pair, from the amounts of lines 491-495
PairRatio(open, close) ==
    LET qty == Min(open.quantity, close.quantity)
        oc == open_cost(open, qty)
    IN  pnl_ratio(pnl_amount(close, oc, close_value(close, qty)), oc)

(* C14: the reducer pairs each closing trade, in log order, with the       *)
(* latest earlier unmatched opening trade of its kind; an opening trade is *)
(* matched at most once; a closing trade with no unmatched opening trade   *)
(* before it marks nothing and contributes nothing.                        *)
C14_PairsLatestUnmatched ==
    Reduced =>
        LET h == result.trades_details
            m == Matched(h, Len(h))
        IN  /\ Marked = {m[n][1] : n \in 1..Len(m)}
            /\ Cardinality(Marked) = Len(result.trade_returns)
            /\ Len(result.trade_returns) = Len(m)
            /\ \A n \in 1..Len(m) :
                   result.trade_returns[n] = PairRatio(h[m[n][1]], h[m[n][2]])

\* two purchases, a sale that takes the later one, and a cover with no
\* short sale before it
C14_Witness ==
    /\ Reduced
    /\ Len(trades_history) = 4
    /\ trades_history[1].action = "BUY" /\ trades_history[2].action = "BUY"
    /\ trades_history[3].action = "SELL"
    /\ trades_history[4].action = "BUY_TO_COVER"
    /\ Marked = {2}
    /\ Len(result.trade_returns) = 1

\* the summed P&L of the pairs, from the result's averages and counts
TotalPnl ==
    RAdd(RMul(result.avg_winning_trade, R(result.profitable_trades)),
         RMul(result.avg_losing_trade, R(result.losing_trades)))

\* the amount a record carries (cost of a purchase or cover, revenue of a
\* sale or short sale), or price * qty when it carries none
RecordedAmount(t, qty) ==
    IF "cost" \in DOMAIN t THEN t.cost
    ELSE IF "revenue" \in DOMAIN t THEN t.revenue
    ELSE R(t.price * qty)

\* P&L of one pair from the recorded amounts
RecordedPnl(open, close) ==
    LET qty == Min(open.quantity, close.quantity)
    IN  IF close.action = "SELL"
        THEN RSub(RecordedAmount(close, qty), RecordedAmount(open, qty))
        ELSE RSub(RecordedAmount(open, qty), RecordedAmount(close, qty))

RECURSIVE SumPnl(_, _, _)
SumPnl(h, m, n) ==
    IF n = 0 THEN RZero
    ELSE RAdd(SumPnl(h, m, n - 1), RecordedPnl(h[m[n][1]], h[m[n][2]]))

(* C15: the P&L of a round trip comes from the recorded amounts: for a     *)
(* short one the SELL_SHORT's recorded proceeds minus the BUY_TO_COVER's   *)
(* recorded cost, for a long one the SELL's recorded revenue minus the     *)
(* BUY's recorded cost; price * qty stands in only for a record that       *)
(* carries no amount.                                                      *)
C15_PnlFromRecordedAmounts ==
    Reduced =>
        LET h == result.trades_details
            m == Matched(h, Len(h))
        IN  TotalPnl = SumPnl(h, m, Len(m))

\* the same for logs whose pairs are all long round trips
C15_LongPnlFromRecordedAmounts ==
    Reduced =>
        LET h == result.trades_details
            m == Matched(h, Len(h))
        IN  (\A n \in 1..Len(m) : h[m[n][2]].action = "SELL")
                => TotalPnl = SumPnl(h, m, Len(m))

\* a short round trip's P&L is the difference of price * qty, fees left out
C15_ShortPnlFromPrices ==
    Reduced =>
        LET h == result.trades_details
        IN  (Len(h) = 2 /\ h[1].action = "SELL_SHORT"
                 /\ h[2].action = "BUY_TO_COVER")
                => TotalPnl = R(Min(h[1].quantity, h[2].quantity)
                                    * (h[1].price - h[2].price))

(* C16: at zero commission and slippage a BUY of q at p1 followed by a     *)
(* SELL of q at p2 gives exactly one pair, with ratio (p2*q - p1*q) /      *)
(* (p1*q); q = 10, p1 = 100, p2 = 110 give 0.10 and one winning trade.     *)
C16_ZeroFeeRoundTrip ==
    Reduced =>
        LET h == result.trades_details
        IN  (/\ Len(h) = 2
             /\ h[1].action = "BUY" /\ h[2].action = "SELL"
             /\ h[1].quantity = h[2].quantity
             /\ RecordedAmount(h[1], h[1].quantity)
                    = R(h[1].price * h[1].quantity)
             /\ RecordedAmount(h[2], h[2].quantity)
                    = R(h[2].price * h[2].quantity))
            => /\ Len(result.trade_returns) = 1
               /\ result.trade_returns[1] =
                      Rat(h[2].price * h[2].quantity
                              - h[1].price * h[1].quantity,
                          h[1].price * h[1].quantity)
               /\ result.total_trades = 1
               /\ h[2].price > h[1].price
                      => /\ result.profitable_trades = 1
                         /\ result.losing_trades = 0
                         /\ result.win_rate = R(1)

\* 10 bought at 100 and sold at 110: ratio 1/10, one winning trade
C16_Witness ==
    /\ Reduced
    /\ Len(result.trades_details) = 2
    /\ result.trades_details[1] =
           ("timestamp" :> 1) @@ WithCost(LogTrade("BUY", 100, 10), R(1000))
    /\ result.trades_details[2] =
           ("timestamp" :> 2)
               @@ WithRevenue(LogTrade("SELL", 110, 10), R(1100))
    /\ result.trade_returns = <<Rat(1, 10)>>
    /\ result.profitable_trades = 1

\* P&L of one pair as lines 491-494 compute it
PairAmount(open, close) ==
    LET qty == Min(open.quantity, close.quantity)
    IN  pnl_amount(close, open_cost(open, qty), close_value(close, qty))

\* summed P&L of the winning (ratio > 0) or of the other pairs among the
\* first n
RECURSIVE Gross(_, _, _, _)
Gross(h, m, n, winning) ==
    IF n = 0 THEN RZero
    ELSE IF RLt(RZero, PairRatio(h[m[n][1]], h[m[n][2]])) = winning
         THEN RAdd(Gross(h, m, n - 1, winning),
                   PairAmount(h[m[n][1]], h[m[n][2]]))
         ELSE Gross(h, m, n - 1, winning)

(* C17: profit_factor is |gross win / gross loss| whenever the summed P&L  *)
(* of the non-winning pairs is negative (300 against 100 gives 3), and the *)
(* infinity sentinel otherwise; it is a defined value in every case, with  *)
(* no division by zero.                                                    *)
C17_ProfitFactor ==
    Reduced =>
        LET h == result.trades_details
            m == Matched(h, Len(h))
            win == Gross(h, m, Len(m), TRUE)
            loss == Gross(h, m, Len(m), FALSE)
        IN  /\ RLt(loss, RZero)
                => /\ result.profit_factor[2] > 0
                   /\ RMul(result.profit_factor, RAbs(loss)) = RAbs(win)
            /\ ~RLt(loss, RZero) => result.profit_factor = Inf

\* gross win 300 against gross loss 100
C17_Witness ==
    /\ Reduced
    /\ result.profit_factor = R(3)
    /\ RMul(result.avg_winning_trade, R(result.profitable_trades)) = R(300)
    /\ RMul(result.avg_losing_trade, R(result.losing_trades)) = R(-100)

\* no pair has lost: the sentinel
C17_WitnessNoLoss ==
    /\ Reduced
    /\ result.profitable_trades = 1 /\ result.losing_trades = 0
    /\ result.profit_factor = Inf

\* the sizes calculate_position_size returns in the present state
SizesNow ==
    {calculate_position_size(p, c, a) :
        p \in Prices, c \in {RZero, Rat(1, 2), R(1)}, a \in AtrCells}

(* C18: calculate_position_size returns a whole quantity of at least 1     *)
(* for every positive price, every confidence in [0, 1] and any cash; so a *)
(* BUY from a flat position executes whenever cash >= price * (1 +         *)
(* commission + slippage), and is rejected only when not even one unit is  *)
(* affordable.                                                             *)
C18_BuyFromFlatExecutesIfAffordable ==
    /\ [](\A q \in SizesNow : q \in Nat /\ q >= 1)
    /\ [][ (Calls("BUY") /\ current_position = 0)
           => LET t == call'.trade
                  q == calculate_position_size(t.price, Confidence(t),
                                               call'.atr)
                  executed == /\ AppendedOne
                              /\ NewTrade.action = "BUY"
                              /\ NewTrade.quantity = q
                              /\ current_position' = q
              IN  /\ q >= 1
                  /\ executed <=> RLe(RMul(R(t.price), CostFactor),
                                      available_cash)
                  /\ ~executed => LedgerUnchanged ]_vars

\* a BUY from a flat position with less cash than one unit costs was
\* rejected
C18_Witness ==
    /\ call.trade.action = "BUY"
    /\ ~LastCallRecorded
    /\ current_position = 0
    /\ RLt(RZero, available_cash)
    /\ RLt(available_cash, RMul(R(call.trade.price), CostFactor))

\* a BUY from a flat position was executed with the floor quantity 1
C18_WitnessFloor ==
    /\ call.trade.action = "BUY"
    /\ LastCallRecorded
    /\ Len(trades_history) = 3
    /\ current_position = 1
    /\ LastTrade.quantity = 1

\* the step is made inside a run and is not the reducer's
LedgerStepOfRun == pc \in {"cover", "buy", "sell", "short", "exit"}
BarStepOfRun == (pc = "loop" /\ pc' # "idle") \/ pc = "equity"

C20_OneSamplePerBar ==
    /\ [](/\ Len(equity_history) = i
          /\ Reduced => (/\ result.equity_curve = equity_history
                         /\ Len(result.equity_curve) = i))
    /\ [][ IF pc = "equity"
           THEN /\ Len(equity_history') = Len(equity_history) + 1
                /\ SubSeq(equity_history', 1, Len(equity_history))
                       = equity_history
                /\ equity_history'[i + 1].equity
                       = RAdd(available_cash', R(current_position' * bar.Close))
                /\ equity_history'[i + 1].cash = available_cash'
                /\ equity_history'[i + 1].position_size = current_position'
                /\ equity_history'[i + 1].price = bar.Close
                /\ pc' = "loop"
           ELSE pc # "idle" => equity_history' = equity_history ]_vars

\* a run over three bars has returned: a bar with no trade, a bar with one
\* and a bar with two (the position was flipped); three samples, the last
\* of a short position
C20_Witness ==
    /\ Reduced
    /\ i = 3
    /\ Len(result.equity_curve) = 3
    /\ Len(trades_history) = 3
    /\ trades_history[1].timestamp = 2
    /\ trades_history[2].timestamp = 3 /\ trades_history[3].timestamp = 3
    /\ result.equity_curve[3].position_size < 0

----------------------------------------------------------------------------
(* Observations on the statistics of a returned run.                       *)

\* the run_backtest call has returned
Returned == Reduced /\ pc = "idle" /\ nruns >= 1

\* the values that stand for annual_return = 0 and sharpe_ratio = 0
AnnualZero == [base |-> R(1), days |-> 0]
SharpeZero == [returns |-> <<>>]

DegenerateDefaults ==
    /\ result.annual_return = AnnualZero
    /\ result.sharpe_ratio = SharpeZero
    /\ result.max_drawdown = RZero
    /\ result.total_trades = 0
    /\ result.win_rate = RZero
    /\ result.final_capital = R(INITIAL_CAPITAL)

(* C21 as stated: a run over zero bars, or over bars that span zero days,  *)
(* returns annual_return = 0, sharpe_ratio = 0, max_drawdown = 0,          *)
(* total_trades = 0, win_rate = 0 and final_capital = initial capital.     *)
C21_DegenerateRunAllDefaults ==
    (Returned /\ (i = 0 \/ result.annual_return.days = 0))
        => DegenerateDefaults

(* C21, amended: a run over zero bars returns all six defaults; a run over *)
(* bars that span zero days returns annual_return = 0, whatever its trades *)
(* and equity curve.                                                       *)
C21_ZeroBarsAllDefaultsZeroSpanAnnual ==
    Returned
        => /\ i = 0 => DegenerateDefaults
           /\ result.annual_return.days = 0
                  => result.annual_return = AnnualZero

\* a run over zero bars has returned with an empty curve and the defaults
C21_Witness ==
    /\ Returned
    /\ i = 0
    /\ result.equity_curve = <<>>
    /\ DegenerateDefaults

\* a run over three bars of one day has returned after a trade
C21_WitnessZeroSpan ==
    /\ Returned
    /\ i = 3
    /\ result.annual_return = AnnualZero
    /\ result.total_trades >= 1
    /\ result.final_capital # R(INITIAL_CAPITAL)

\* the records of the log made on the bar with the given timestamp
TradesOfBar(ts) ==
    {j \in 1..Len(trades_history) : trades_history[j].timestamp = ts}

BuyRule(sig) == sig.signal_type = "BUY" /\ current_position <= 0
SellRule(sig) == sig.signal_type = "SELL" /\ current_position >= 0

(* C22: each bar of run_backtest takes at most one of the three            *)
(* transitions in priority order: the exit check is evaluated only on bars *)
(* where a position is held and neither the BUY rule nor the SELL rule     *)
(* applied; a bar records at most two trades, and two only as a full close *)
(* followed by an open; an exit-check trade is one SELL (from long) or     *)
(* BUY_TO_COVER (from short) of the full quantity, and leaves position 0.  *)
C22_OneTransitionPerBar ==
    /\ [](\A ts \in 1..MaxBars + 1 :
            /\ Cardinality(TradesOfBar(ts)) <= 2
            /\ Cardinality(TradesOfBar(ts)) = 2
               => \E j \in 1..(Len(trades_history) - 1) :
                      /\ TradesOfBar(ts) = {j, j + 1}
                      /\ <<trades_history[j].action,
                           trades_history[j + 1].action>>
                             \in {<<"BUY_TO_COVER", "BUY">>,
                                  <<"SELL", "SELL_SHORT">>})
    /\ [][ /\ (pc = "loop" /\ pc' # "idle")
              => /\ BuyRule(signal') <=> pc' \in {"cover", "buy"}
                 /\ (~BuyRule(signal') /\ SellRule(signal'))
                        <=> pc' \in {"sell", "short"}
                 /\ pc' = "exit"
                    <=> (/\ current_position # 0
                         /\ ~BuyRule(signal') /\ ~SellRule(signal'))
           /\ pc \in {"cover", "sell"}
              => /\ AppendedOne
                 /\ NewTrade.quantity = Abs(current_position)
                 /\ current_position' = 0
                 /\ pc' = (IF pc = "cover" THEN "buy" ELSE "short")
           /\ pc \in {"buy", "short"}
              => (current_position = 0 /\ pc' = "equity")
           /\ pc = "exit"
              => /\ pc' = "equity"
                 /\ trades_history' = trades_history
                    \/ /\ AppendedOne
                       /\ NewTrade.action = (IF current_position > 0
                                             THEN "SELL" ELSE "BUY_TO_COVER")
                       /\ NewTrade.quantity = Abs(current_position)
                       /\ current_position' = 0 ]_vars

\* a bar has recorded two trades, the close of a long position and the
\* short sale after it
C22_Witness ==
    /\ pc = "equity"
    /\ Cardinality(TradesOfBar(i + 1)) = 2
    /\ LastTrade.action = "SELL_SHORT"
    /\ trades_history[Len(trades_history) - 1].action = "SELL"
    /\ current_position < 0

\* the exit check is about to be evaluated on a bar whose signal is HOLD
C22_WitnessExitCheck ==
    /\ pc = "exit"
    /\ current_position > 0
    /\ signal.signal_type = "HOLD"

Openings(h) == {j \in 1..Len(h) : IsOpening(h[j])}
WinningPairs(h, m) ==
    {n \in 1..Len(m) : RLt(RZero, PairRatio(h[m[n][1]], h[m[n][2]]))}

(* C24: win_rate is the number of winning pairs divided by the number of   *)
(* opening trades (BUY and SELL_SHORT) of the log, and 0 when there are    *)
(* none; profitable_trades + losing_trades <= total_trades and             *)
(* 0 <= win_rate <= 1 for every trade log.                                 *)
C24_WinRate ==
    Reduced =>
        LET h == result.trades_details
            m == Matched(h, Len(h))
            opens == Cardinality(Openings(h))
            wins == Cardinality(WinningPairs(h, m))
        IN  /\ result.total_trades = opens
            /\ result.profitable_trades = wins
            /\ result.win_rate = (IF opens = 0 THEN RZero ELSE Rat(wins, opens))
            /\ result.profitable_trades + result.losing_trades
                   <= result.total_trades
            /\ RLe(RZero, result.win_rate) /\ RLe(result.win_rate, R(1))

\* two purchases, one sold at a gain and one at a loss: win rate 1/2
C24_Witness ==
    /\ Reduced
    /\ result.total_trades = 2
    /\ result.profitable_trades = 1 /\ result.losing_trades = 1
    /\ result.win_rate = Rat(1, 2)

\* a log of closing records only: no opening trade, win rate 0
C24_WitnessNoOpening ==
    /\ Reduced
    /\ Len(result.trades_details) = 2
    /\ result.total_trades = 0
    /\ result.win_rate = RZero

(* C25: in GoldTradingStrategy.backtest, whenever a position is held and   *)
(* should_exit_position reports an exit, the position is closed on that    *)
(* bar: after the step that executes the close the strategy's position is  *)
(* 0, entry_price is reset and a closing trade is appended to the returned *)
(* trades.                                                                 *)
C25_ExitClosesPosition ==
    [][ (pc = "bt_exit" /\ BtVerdict.exit)
        => /\ strat'.position = 0
           /\ strat'.entry_price = RZero
           /\ Len(bt'.trades) = Len(bt.trades) + 1 ]_vars

\* the step that executes the close changes nothing but signals_history,
\* and the position the exit was reported for is closed by the end of the
\* bar, by the SELL branch
C25_ExitStepIsNoOp ==
    [][ /\ (pc = "bt_exit" /\ BtVerdict.exit)
           => /\ strat' = [strat EXCEPT !.signals_history =
                              Append(@, exit_signal(signal, BtVerdict.reason))]
              /\ bt' = bt
        /\ (pc = "bt_signal" /\ strat.position # 0 /\ BtVerdict.exit)
           => /\ strat'.position = 0
              /\ Len(bt'.trades) = Len(bt.trades) + 1 ]_vars

SetMin(S) == CHOOSE x \in S : \A y \in S : x <= y

\* the pairs made when each closing record takes the oldest earlier opening
\* record of its kind that no pair holds yet
RECURSIVE MatchedFifo(_, _)
MatchedFifo(h, k) ==
    IF k = 0 THEN <<>>
    ELSE LET m == MatchedFifo(h, k - 1)
             free == {j \in 1..(k - 1) :
                         /\ IsOpening(h[j]) /\ Corresponds(h[j], h[k])
                         /\ \A n \in 1..Len(m) : m[n][1] # j}
         IN  IF IsClosing(h[k]) /\ free # {}
             THEN Append(m, <<SetMin(free), k>>)
             ELSE m

(* C26: in every trade log of run_backtest opening and closing trades      *)
(* alternate strictly, starting with an opening trade: every BUY and       *)
(* SELL_SHORT executes from a flat position, every SELL and BUY_TO_COVER   *)
(* closes the whole position with the quantity of the opening trade just   *)
(* before it; so matching a close to the latest unmatched open and to the  *)
(* oldest one give the same pairs, and no closing trade is unmatched.      *)
C26_OpenCloseAlternate ==
    /\ [](LET h == trades_history
              n == Len(h)
          IN  /\ \A j \in 1..n :
                     IF j % 2 = 1
                     THEN IsOpening(h[j])
                     ELSE /\ IsClosing(h[j])
                          /\ Corresponds(h[j - 1], h[j])
                          /\ h[j].quantity = h[j - 1].quantity
              /\ Matched(h, n) = MatchedFifo(h, n)
              /\ \A j \in 1..n :
                     IsClosing(h[j])
                         => \E k \in 1..Len(Matched(h, n)) :
                                Matched(h, n)[k] = <<j - 1, j>>)
    /\ [][ AppendedOne
           => IF IsOpening(NewTrade)
              THEN current_position = 0 /\ current_position' # 0
              ELSE current_position # 0 /\ current_position' = 0 ]_vars

\* a run has returned with a long round trip followed by a short sale; the
\* reducer's mark is on the purchase
C26_Witness ==
    /\ Returned
    /\ Len(trades_history) = 3
    /\ trades_history[1].action = "BUY"
    /\ trades_history[2].action = "SELL"
    /\ trades_history[3].action = "SELL_SHORT"
    /\ Marked = {1}

\* the verdict of the exit check of the bar in progress (lines 395-398)
RunVerdict ==
    should_exit_position(prev, bar, i, entry_price,
                         IF current_position > 0 THEN "BUY" ELSE "SELL")

(* C27: inside run_backtest the reversal branch of the exit check never    *)
(* fires: whenever should_exit_position is called the bar's composite      *)
(* signal is not opposite to the position held (a long position is checked *)
(* on BUY and HOLD bars only, a short one on SELL and HOLD bars only), so  *)
(* every close caused by an opposite signal is made by a flip and every    *)
(* close made by the exit check is a stop-loss or a take-profit.           *)
C27_ReversalNeverFires ==
    /\ [](pc = "exit"
          => /\ current_position > 0 => signal.signal_type \in {"BUY", "HOLD"}
             /\ current_position < 0 => signal.signal_type \in {"SELL", "HOLD"}
             /\ RunVerdict.reason # "reversal")
    /\ [][ /\ (pc = "exit" /\ AppendedOne)
              => NewTrade.reason \in {"long_stop_loss", "short_stop_loss",
                                      "long_take_profit", "short_take_profit"}
           /\ (AppendedOne /\ IsClosing(NewTrade)
                   /\ signal.signal_type
                          = (IF current_position > 0 THEN "SELL" ELSE "BUY"))
              => (/\ pc \in {"sell", "cover"}
                  /\ NewTrade.reason \in {"close_long", "close_short"}) ]_vars

\* the exit check is called for a long position on a bar whose signal is BUY
C27_Witness ==
    /\ pc = "exit"
    /\ current_position > 0
    /\ signal.signal_type = "BUY"
    /\ ~RunVerdict.exit

\* a long position was closed by the flip on a SELL bar
C27_WitnessFlip ==
    /\ pc = "short"
    /\ signal.signal_type = "SELL"
    /\ trades_history # <<>>
    /\ LastTrade.action = "SELL" /\ LastTrade.reason = "close_long"

\* the cash a record moved: its revenue in, or its cost out
CashFlow(t) ==
    IF t.action \in {"BUY", "BUY_TO_COVER"}
    THEN RSub(RZero, t.cost)
    ELSE t.revenue

RECURSIVE CashFlowSum(_, _)
CashFlowSum(h, n) ==
    IF n = 0 THEN RZero
    ELSE RAdd(CashFlowSum(h, n - 1), CashFlow(h[n]))

(* C28: after any sequence of execute_trade calls from a reset engine,     *)
(* available_cash is the initial capital minus the recorded cost of every  *)
(* BUY and BUY_TO_COVER plus the recorded revenue of every SELL and        *)
(* SELL_SHORT; a BUY never leaves available_cash negative, while a         *)
(* BUY_TO_COVER may.                                                       *)
C28_CashIsCapitalPlusFlows ==
    /\ [](available_cash
              = RAdd(R(INITIAL_CAPITAL),
                     CashFlowSum(trades_history, Len(trades_history))))
    /\ [][ (AppendedOne /\ NewTrade.action = "BUY")
           => RLe(RZero, available_cash') ]_vars

\* a BUY_TO_COVER has left the cash negative
C28_Witness ==
    /\ Len(trades_history) = 3
    /\ LastTrade.action = "BUY_TO_COVER"
    /\ RLt(available_cash, RZero)

\* a BUY has spent nearly all the cash
C28_WitnessBuy ==
    /\ trades_history # <<>>
    /\ LastTrade.action = "BUY"
    /\ RLe(RZero, available_cash)
    /\ RLt(available_cash, RMul(R(LastTrade.price), CostFactor))

\* a log as run_backtest leaves it (C26) with the position flat at its end,
\* every record carrying its amount
FlatRunLog(h) ==
    /\ h # <<>>
    /\ Len(h) % 2 = 0
    /\ \A j \in 1..Len(h) :
           /\ "cost" \in DOMAIN h[j] \/ "revenue" \in DOMAIN h[j]
           /\ IF j % 2 = 1
              THEN IsOpening(h[j])
              ELSE /\ IsClosing(h[j])
                   /\ Corresponds(h[j - 1], h[j])
                   /\ h[j].quantity = h[j - 1].quantity

(* C29: whenever a run ends with a flat position, the realized P&L amounts *)
(* of all matched pairs (winning amount plus losing amount) sum to final   *)
(* cash minus initial capital, whatever the commission and slippage rates, *)
(* for long and for short round trips alike.                               *)
C29_PnlSumsToCashChange ==
    (Reduced /\ FlatRunLog(result.trades_details))
        => TotalPnl = CashFlowSum(result.trades_details,
                                  Len(result.trades_details))

\* the same for logs of long round trips only
C29_LongPnlSumsToCashChange ==
    (/\ Reduced /\ FlatRunLog(result.trades_details)
     /\ \A j \in 1..Len(result.trades_details) :
            result.trades_details[j].action \in {"BUY", "SELL"})
        => TotalPnl = CashFlowSum(result.trades_details,
                                  Len(result.trades_details))

\* two long round trips have been reduced
C29_WitnessLong ==
    /\ Reduced /\ FlatRunLog(result.trades_details)
    /\ Len(result.trades_details) = 4
    /\ \A j \in 1..4 : result.trades_details[j].action \in {"BUY", "SELL"}
    /\ TotalPnl # RZero

\* the statistics of the pairing loop in a result
PairStats(r) ==
    [profitable_trades |-> r.profitable_trades,
     losing_trades |-> r.losing_trades,
     win_rate |-> r.win_rate,
     profit_factor |-> r.profit_factor,
     avg_winning_trade |-> r.avg_winning_trade,
     avg_losing_trade |-> r.avg_losing_trade,
     max_winning_trade |-> r.max_winning_trade,
     max_losing_trade |-> r.max_losing_trade]

\* the records of a log without their 'processed' marks
Unmarked(h) ==
    [j \in 1..Len(h) |->
        [f \in DOMAIN h[j] \ {"processed"} |-> h[j][f]]]

\* a later call of _generate_result, the trade log being the same records
SecondReduction ==
    /\ Reduced
    /\ result'.kind = "result"
    /\ Unmarked(trades_history') = Unmarked(trades_history)

(* C30: reducing the same finished run twice gives the same statistics: a  *)
(* second call of _generate_result on an engine whose trade log has not    *)
(* changed returns the same profitable_trades, losing_trades, win_rate,    *)
(* profit_factor and average/largest win and loss as the first call; the   *)
(* 'processed' marks left by the first reduction do not affect it.         *)
C30_ReducingTwiceSameStatistics ==
    [][SecondReduction => PairStats(result') = PairStats(result)]_vars

\* what a later call does keep: the count of opening trades, and the
\* statistics themselves when the call before it matched no pair
C30_SecondReductionKeepsTotalTrades ==
    [][SecondReduction =>
          /\ result'.total_trades = result.total_trades
          /\ (result.trade_returns = <<>>
                 => PairStats(result') = PairStats(result))]_vars

\* a pair once matched is never matched again: a later call books only
\* pairs whose opening trade was left unmarked
C30_SecondReductionDropsMatchedPairs ==
    [][SecondReduction =>
          Len(result'.trade_returns)
              <= Cardinality({j \in 1..Len(trades_history) :
                                 /\ IsOpening(trades_history[j])
                                 /\ "processed" \notin DOMAIN trades_history[j]})
      ]_vars

====
